---- MODULE Spec2Model ----
(***************************************************************************)
(* Model of the Constellation metagraph SDK (packages/rust): currency       *)
(* transactions (currency_transaction.rs), wallet (wallet.rs), signing      *)
(* (sign.rs) and the generic signed envelope.                               *)
(*                                                                          *)
(* Strings are TLA+ strings; bytes are sequences of integers 0..255.        *)
(* Cryptographic primitives are ideal: SHA-256 and SHA-512 are injective    *)
(* term constructors, an ECDSA signature is a term naming its signer and    *)
(* its message, and the public key of a private key comes from a table of   *)
(* real secp256k1 points.  The 64-bit signed integers of the program are    *)
(* modelled with IntBits bits, twos complement.                            *)
(***************************************************************************)
EXTENDS Integers, Sequences, FiniteSets, TLC

----------------------------------------------------------------------------
(* Bounds of the model                                                      *)

IntBits == 4
MaxBatch == 2
MaxProofs == 3
\* resolution of the floating-point token amounts: an amount is a whole
\* number of ticks, TicksPerUnit ticks to the smallest unit (1e-8 token)
TicksPerUnit == 2

----------------------------------------------------------------------------
(* Characters, strings and numbers                                          *)

\* printable ASCII in three runs; the codes 34, 92 and 96 (double quote,
\* backslash, backtick) are left out
AsciiLo == " !"
AsciiMid == "#$%&'()*+,-./0123456789:;<=>?@ABCDEFGHIJKLMNOPQRSTUVWXYZ["
AsciiHi == "abcdefghijklmnopqrstuvwxyz{|}~"
AsciiSym == "]^_"

CharAt(s, i) == SubSeq(s, i, i)

CharsOf(s) == {CharAt(s, i) : i \in 1..Len(s)}

AsciiChars == CharsOf(AsciiLo) \cup CharsOf(AsciiMid) \cup CharsOf(AsciiSym) \cup CharsOf(AsciiHi)

IndexIn(c, alphabet) == CHOOSE i \in 1..Len(alphabet) : CharAt(alphabet, i) = c

\* code unit of a printable ASCII character
Ord == [c \in AsciiChars |->
          IF c \in CharsOf(AsciiLo) THEN 31 + IndexIn(c, AsciiLo)
          ELSE IF c \in CharsOf(AsciiMid) THEN 34 + IndexIn(c, AsciiMid)
          ELSE IF c \in CharsOf(AsciiSym) THEN 92 + IndexIn(c, AsciiSym)
          ELSE 96 + IndexIn(c, AsciiHi)]

HexDigits == "0123456789abcdef"

DecDigits == "0123456789"

DecChars == CharsOf(DecDigits)

\* every character of s is in the set chars
AllCharsIn(s, chars) == \A i \in 1..Len(s) : CharAt(s, i) \in chars

StartsWith(s, p) == Len(s) >= Len(p) /\ SubSeq(s, 1, Len(p)) = p

RECURSIVE Repeat(_, _)
Repeat(s, n) ==
    IF n = 0 THEN ""
    ELSE IF n = 1 THEN s
    ELSE Repeat(s, n \div 2) \o Repeat(s, n - (n \div 2))

\* format!("{:x}", n) of a natural number
RECURSIVE HexOfNat(_)
HexOfNat(n) ==
    IF n < 16 THEN CharAt(HexDigits, n + 1)
    ELSE HexOfNat(n \div 16) \o CharAt(HexDigits, (n % 16) + 1)

HexByte == [b \in 0..255 |->
              CharAt(HexDigits, (b \div 16) + 1) \o CharAt(HexDigits, (b % 16) + 1)]

\* the hex digits of bytes[lo..hi]
RECURSIVE HexRange(_, _, _)
HexRange(bytes, lo, hi) ==
    IF lo > hi THEN ""
    ELSE IF lo = hi THEN HexByte[bytes[lo]]
    ELSE LET mid == (lo + hi) \div 2
         IN  HexRange(bytes, lo, mid) \o HexRange(bytes, mid + 1, hi)

\* hex::encode of a byte vector: two lowercase digits per byte
HexEncode(bytes) == HexRange(bytes, 1, Len(bytes))

\* str::as_bytes of an ASCII string
AsBytes(s) == [i \in 1..Len(s) |-> Ord[CharAt(s, i)]]

----------------------------------------------------------------------------
(* Binding of intermediate values                                           *)

\* let x = v: F reads v through its parameter
Let(v, F(_)) == F(v)

\* r?: an error leaves the function, a value goes on
Try(r, F(_)) == IF r.ok THEN F(r.val) ELSE r

----------------------------------------------------------------------------
(* Signed integers of the program (i64), IntBits wide                       *)

I64_MAX == 2^(IntBits - 1) - 1
I64_MIN == -(2^(IntBits - 1))
I64 == I64_MIN..I64_MAX

\* twos complement wrap of a mathematical integer into the signed range
WrapI64(n) == ((n - I64_MIN) % 2^IntBits) + I64_MIN

\* format!("{:x}", v) of a signed integer: twos complement for negatives
HexOfI64(v) == IF v >= 0 THEN HexOfNat(v) ELSE HexOfNat(2^IntBits + v)

----------------------------------------------------------------------------
(* Unsigned integers beyond the range of the checker: little-endian         *)
(* sequences of decimal digits without leading zeros (zero is <<>>).        *)
(* They carry u64 and BigUint values.                                       *)

RECURSIVE BigNorm(_)
BigNorm(b) ==
    IF b = <<>> THEN <<>>
    ELSE IF b[Len(b)] = 0 THEN BigNorm(SubSeq(b, 1, Len(b) - 1))
    ELSE b

\* b * m + carry for a small m
RECURSIVE BigMulAdd(_, _, _)
BigMulAdd(b, m, carry) ==
    IF b = <<>> THEN
        IF carry = 0 THEN <<>> ELSE <<carry % 10>> \o BigMulAdd(<<>>, m, carry \div 10)
    ELSE LET v == Head(b) * m + carry
         IN  <<v % 10>> \o BigMulAdd(Tail(b), m, v \div 10)

RECURSIVE BigAddC(_, _, _)
BigAddC(a, b, carry) ==
    IF a = <<>> /\ b = <<>> THEN (IF carry = 0 THEN <<>> ELSE <<carry>>)
    ELSE LET x == IF a = <<>> THEN 0 ELSE Head(a)
             y == IF b = <<>> THEN 0 ELSE Head(b)
             v == x + y + carry
         IN  <<v % 10>> \o BigAddC(IF a = <<>> THEN <<>> ELSE Tail(a),
                                   IF b = <<>> THEN <<>> ELSE Tail(b), v \div 10)

BigAdd(a, b) == BigAddC(a, b, 0)

\* a - b for a >= b
RECURSIVE BigSubB(_, _, _)
BigSubB(a, b, borrow) ==
    IF a = <<>> THEN <<>>
    ELSE LET y == IF b = <<>> THEN 0 ELSE Head(b)
             v == Head(a) - y - borrow
         IN  <<IF v < 0 THEN v + 10 ELSE v>>
             \o BigSubB(Tail(a), IF b = <<>> THEN <<>> ELSE Tail(b), IF v < 0 THEN 1 ELSE 0)

BigSub(a, b) == BigNorm(BigSubB(a, b, 0))

RECURSIVE BigLess(_, _)
BigLess(a, b) ==
    IF Len(a) # Len(b) THEN Len(a) < Len(b)
    ELSE IF a = <<>> THEN FALSE
    ELSE IF a[Len(a)] # b[Len(b)] THEN a[Len(a)] < b[Len(b)]
    ELSE BigLess(SubSeq(a, 1, Len(a) - 1), SubSeq(b, 1, Len(b) - 1))

\* 1 << n
RECURSIVE BigPow2(_)
BigPow2(n) == IF n = 0 THEN <<1>> ELSE BigMulAdd(BigPow2(n - 1), 2, 0)

\* quotient and remainder of b[1..n] by a small d, most significant digit
\* first
RECURSIVE BigDivModAt(_, _, _, _)
BigDivModAt(b, d, n, rem) ==
    IF n = 0 THEN [q |-> <<>>, r |-> rem]
    ELSE LET v == rem * 10 + b[n]
             rest == BigDivModAt(b, d, n - 1, v % d)
         IN  [q |-> Append(rest.q, v \div d), r |-> rest.r]

BigDivMod(b, d, rem) == BigDivModAt(b, d, Len(b), rem)

\* u64::from_be_bytes / BigUint from big-endian bytes
RECURSIVE BigFromBytes(_)
BigFromBytes(bytes) ==
    IF bytes = <<>> THEN <<>>
    ELSE BigNorm(BigMulAdd(BigFromBytes(SubSeq(bytes, 1, Len(bytes) - 1)), 256, bytes[Len(bytes)]))

\* to_string of an unsigned integer
RECURSIVE BigDigits(_)
BigDigits(b) ==
    IF b = <<>> THEN ""
    ELSE CharAt(DecDigits, b[Len(b)] + 1) \o BigDigits(SubSeq(b, 1, Len(b) - 1))

BigToDec(b) == IF b = <<>> THEN "0" ELSE BigDigits(b)

\* the value of a string of decimal digits
BigFromDec(s) == BigNorm([i \in 1..Len(s) |-> IndexIn(CharAt(s, Len(s) + 1 - i), DecDigits) - 1])

\* the hex digits of an unsigned integer, four at a time from the right
RECURSIVE BigHexDigits(_)
BigHexDigits(b) ==
    LET dm == BigDivMod(b, 65536, 0)
        q == BigNorm(dm.q)
    IN  IF q = <<>> THEN HexOfNat(dm.r)
        ELSE BigHexDigits(q) \o HexByte[dm.r \div 256] \o HexByte[dm.r % 256]

\* format!("{:x}", n) of an unsigned integer
BigToHex(b) == BigHexDigits(b)

----------------------------------------------------------------------------
(* Hex decoding, hashing                                                    *)

HexAlphabet == "0123456789abcdefABCDEF"

HexChars == CharsOf(HexAlphabet)

\* hex::decode succeeds: even length, hexadecimal digits only
IsHex(s) == Len(s) % 2 = 0 /\ AllCharsIn(s, HexChars)

HexVal == [c \in HexChars |->
             LET i == IndexIn(c, HexAlphabet) IN IF i <= 16 THEN i - 1 ELSE i - 7]

\* hex::decode(s) of a string that IsHex
HexDecode(s) == [i \in 1..(Len(s) \div 2) |->
                    16 * HexVal[CharAt(s, 2 * i - 1)] + HexVal[CharAt(s, 2 * i)]]

\* private keys of the model: the scalars 1, 2 and 3
PrivateKey1 == Repeat("0", 63) \o "1"
PrivateKey2 == Repeat("0", 63) \o "2"
PrivateKey3 == Repeat("0", 63) \o "3"

\* uncompressed secp256k1 points 1*G, 2*G, 3*G (serialize_uncompressed, hex)
PublicKeyOf ==
    PrivateKey1 :> ("0479be667ef9dcbbac55a06295ce870b07029bfcdb2dce28d959f2815b16f81798"
                    \o "483ada7726a3c4655da4fbfc0e1108a8fd17b448a68554199c47d08ffb10d4b8")
    @@ PrivateKey2 :> ("04c6047f9441ed7d6d3045406e95c07cd85c778e4b8cef3ca7abac09b95c709ee5"
                       \o "1ae168fea63dc339a3c58419466ceaeef7f632653266d0e1236431a950cfe52a")
    @@ PrivateKey3 :> ("04f9308a019258c31049344f85f89d5229b531c845836f99b08601f113bce036f9"
                       \o "388f7b0f632de8140fe337e62a37f3566500a99934c2231b6cb9fd7584b8e672")

PKCS_PREFIX == "3056301006072a8648ce3d020106052b8104000a034200"

\* SHA-256 digests the model knows by value, by the hex of the input: the
\* SubjectPublicKeyInfo of the three public keys, its prefix alone and the
\* empty input
KnownSha256 ==
    "" :> "e3b0c44298fc1c149afbf4c8996fb92427ae41e4649b934ca495991b7852b855"
    @@ PKCS_PREFIX :> "0c8f8ea935f6f3b4107dd996a4c8923e224f66e426f4a9695d71c115882835ad"
    @@ (PKCS_PREFIX \o PublicKeyOf[PrivateKey1])
         :> "989d77baf2075b24f8fced962bc205267c65377e09c6631cc1a6364f1df77d4c"
    @@ (PKCS_PREFIX \o PublicKeyOf[PrivateKey2])
         :> "df6421ecee730dcc5390320351754b81c05cc702a77665468f03a1c9c2a77426"
    @@ (PKCS_PREFIX \o PublicKeyOf[PrivateKey3])
         :> "e04c7db3a4f433c47db88a888c2a98e29ab18b697d088c9c84ff3ffbef525f6d"

\* hex::encode(Sha256(bytes)): the real digest where the model knows it,
\* otherwise the term "#<hex of the input>", which is injective in the input
Sha256Hex(bytes) ==
    Let(HexEncode(bytes), LAMBDA input :
        IF input \in DOMAIN KnownSha256 THEN KnownSha256[input] ELSE "#" \o input)

IsDigestTerm(s) == StartsWith(s, "#")

\* str::len: a digest term stands for 64 hexadecimal characters
StrLen(s) == IF IsDigestTerm(s) THEN 64 ELSE Len(s)

\* Sha512(hash_hex.as_bytes())[..32]: an injective term over the input
Sha512Trunc(hash_hex) == "$" \o hash_hex

----------------------------------------------------------------------------
(* Results                                                                  *)

NoValue == <<>>

Ok(v) == [ok |-> TRUE, err |-> "", val |-> v]

Err(e) == [ok |-> FALSE, err |-> e, val |-> NoValue]

\* an arithmetic overflow or an unwrap of an error aborts the call
Panic == Err("panic")

----------------------------------------------------------------------------
(* wallet.rs                                                                *)

BASE58_ALPHABET == "123456789ABCDEFGHJKLMNPQRSTUVWXYZabcdefghijkmnopqrstuvwxyz"

Base58Chars58 == CharsOf(BASE58_ALPHABET)

CurvePoints == {HexDecode(PublicKeyOf[k]) : k \in DOMAIN PublicKeyOf}

\* SecretKey::from_slice(&hex::decode(private_key)?)?
\* The valid scalars of the model are the keys of PublicKeyOf.
SecretKeyFromHex(private_key) ==
    IF ~IsHex(private_key) THEN Err("HexError")
    ELSE Let({k \in DOMAIN PublicKeyOf : HexDecode(k) = HexDecode(private_key)},
             LAMBDA scalars :
                 IF scalars # {} THEN Ok(CHOOSE k \in scalars : TRUE)
                 ELSE Err("CryptoError"))

\* secp256k1::PublicKey::from_slice: a 65-byte uncompressed point of the curve
\* (the model knows the points of PublicKeyOf)
IsCurvePoint(bytes) == bytes \in CurvePoints

normalize_public_key(public_key) ==
    IF Len(public_key) = 128 THEN "04" \o public_key ELSE public_key

normalize_public_key_to_id(public_key) ==
    IF Len(public_key) = 130 /\ StartsWith(public_key, "04")
    THEN SubSeq(public_key, 3, Len(public_key))
    ELSE public_key

\* get_public_key_hex(private_key, false)
get_public_key_hex(private_key) ==
    IF ~IsHex(private_key) THEN Err("HexError")
    ELSE Try(SecretKeyFromHex(private_key), LAMBDA sk : Ok(PublicKeyOf[sk]))

\* a variant that keeps the 04 prefix
get_public_key_id_with_prefix(private_key) == get_public_key_hex(private_key)

get_public_key_id(private_key) ==
    Try(get_public_key_hex(private_key), LAMBDA pk : Ok(normalize_public_key_to_id(pk)))

\* the inner loop of base58_encode: fold one byte into the base-58 digits
RECURSIVE Base58Carry(_, _)
Base58Carry(num, carry) ==
    IF num = <<>> THEN
        IF carry = 0 THEN <<>> ELSE <<carry % 58>> \o Base58Carry(<<>>, carry \div 58)
    ELSE LET c == carry + Head(num) * 256
         IN  <<c % 58>> \o Base58Carry(Tail(num), c \div 58)

RECURSIVE Base58Digits(_, _)
Base58Digits(data, num) ==
    IF data = <<>> THEN num
    ELSE Base58Digits(Tail(data), Base58Carry(num, Head(data)))

RECURSIVE LeadingZeros(_)
LeadingZeros(data) ==
    IF data = <<>> \/ Head(data) # 0 THEN 0 ELSE 1 + LeadingZeros(Tail(data))

RECURSIVE Base58Chars(_)
Base58Chars(num) ==
    IF num = <<>> THEN ""
    ELSE CharAt(BASE58_ALPHABET, num[Len(num)] + 1) \o Base58Chars(SubSeq(num, 1, Len(num) - 1))

base58_encode(data) ==
    IF data = <<>> THEN ""
    ELSE Repeat("1", LeadingZeros(data)) \o Base58Chars(Base58Digits(data, <<>>))

RECURSIVE DigitSum(_)
DigitSum(s) ==
    IF s = "" THEN 0
    ELSE (IF CharAt(s, 1) \in DecChars THEN IndexIn(CharAt(s, 1), DecDigits) - 1 ELSE 0)
         + DigitSum(SubSeq(s, 2, Len(s)))

\* a variant with the parity digit taken modulo 10
get_address_parity_mod_10(public_key) ==
    Let(PKCS_PREFIX \o normalize_public_key(public_key), LAMBDA pkcs_encoded :
    Let(base58_encode(HexDecode(Sha256Hex(HexDecode(pkcs_encoded)))), LAMBDA encoded :
    Let(SubSeq(encoded, Len(encoded) - 35, Len(encoded)), LAMBDA last36 :
        "DAG" \o ToString(DigitSum(last36) % 10) \o last36)))

\* a variant that hashes the prefix alone when the key is not hex
get_address_of_prefix_on_error(public_key) ==
    Let(PKCS_PREFIX \o normalize_public_key(public_key), LAMBDA pkcs_encoded :
    Let(IF IsHex(pkcs_encoded) THEN HexDecode(pkcs_encoded) ELSE HexDecode(PKCS_PREFIX),
        LAMBDA pkcs_bytes :
    Let(base58_encode(HexDecode(Sha256Hex(pkcs_bytes))), LAMBDA encoded :
    Let(IF Len(encoded) > 36
        THEN SubSeq(encoded, Len(encoded) - 35, Len(encoded))
        ELSE encoded, LAMBDA last36 :
    Let(DigitSum(last36) % 9, LAMBDA parity :
        "DAG" \o ToString(parity) \o last36)))))

get_address(public_key) ==
    Let(PKCS_PREFIX \o normalize_public_key(public_key), LAMBDA pkcs_encoded :
    Let(IF IsHex(pkcs_encoded) THEN HexDecode(pkcs_encoded) ELSE <<>>, LAMBDA pkcs_bytes :
    Let(base58_encode(HexDecode(Sha256Hex(pkcs_bytes))), LAMBDA encoded :
    Let(IF Len(encoded) > 36
        THEN SubSeq(encoded, Len(encoded) - 35, Len(encoded))
        ELSE encoded, LAMBDA last36 :
    Let(DigitSum(last36) % 9, LAMBDA parity :
        "DAG" \o ToString(parity) \o last36)))))

is_valid_private_key(private_key) ==
    Len(private_key) = 64 /\ AllCharsIn(private_key, HexChars)

key_pair_from_private_key(private_key) ==
    IF ~is_valid_private_key(private_key) THEN Err("InvalidPrivateKey")
    ELSE Try(SecretKeyFromHex(private_key), LAMBDA secret_key :
             Ok([private_key |-> private_key, public_key |-> PublicKeyOf[secret_key],
                 address |-> get_address(PublicKeyOf[secret_key])]))

----------------------------------------------------------------------------
(* currency_transaction.rs: conversions, validation, salt                   *)

\* an f64 token amount: NaN, or ticks / TicksPerUnit smallest units
F64(n) == [nan |-> FALSE, ticks |-> n]
NaN == [nan |-> TRUE, ticks |-> 0]

\* a variant that casts to an unsigned integer: negatives become 0
token_to_units_unsigned(amount) ==
    IF amount.nan THEN 0
    ELSE LET floored == amount.ticks \div TicksPerUnit
         IN  IF floored > I64_MAX THEN I64_MAX
             ELSE IF floored < 0 THEN 0
             ELSE floored

\* a variant that rounds to the nearest unit
token_to_units_rounding(amount) ==
    IF amount.nan THEN 0
    ELSE LET rounded == (2 * amount.ticks + TicksPerUnit) \div (2 * TicksPerUnit)
         IN  IF rounded > I64_MAX THEN I64_MAX
             ELSE IF rounded < I64_MIN THEN I64_MIN
             ELSE rounded

\* (amount * 1e8).floor() as i64: floor, then a saturating cast, NaN to 0
token_to_units(amount) ==
    IF amount.nan THEN 0
    ELSE LET floored == amount.ticks \div TicksPerUnit
         IN  IF floored > I64_MAX THEN I64_MAX
             ELSE IF floored < I64_MIN THEN I64_MIN
             ELSE floored

\* str::len: the length in bytes of the UTF-8 text; a character outside ASCII
\* takes two bytes (the ones used here do)
Utf8Len(s) == Len(s) + Cardinality({i \in 1..Len(s) : CharAt(s, i) \notin AsciiChars})

\* a variant that takes any decimal digit as parity
is_valid_dag_address_any_digit(address) ==
    /\ StartsWith(address, "DAG")
    /\ Utf8Len(address) = 40
    /\ CharAt(address, 4) \in DecChars
    /\ Len(address) = 40
    /\ AllCharsIn(SubSeq(address, 5, Len(address)), Base58Chars58)

\* the inputs on which is_valid_dag_address panics: unwrap of a missing fourth
\* character, or a slice at byte 4 that is not on a character boundary
is_valid_dag_address_panics(address) ==
    /\ StartsWith(address, "DAG")
    /\ Utf8Len(address) = 40
    /\ \/ Len(address) < 4
       \/ /\ CharAt(address, 4) \in DecChars
          /\ CharAt(address, 4) # "9"
          /\ ~\E k \in 0..Len(address) : Utf8Len(SubSeq(address, 1, k)) = 4

is_valid_dag_address(address) ==
    IF ~StartsWith(address, "DAG") THEN FALSE
    ELSE IF Utf8Len(address) # 40 THEN FALSE
    ELSE LET parity_char == CharAt(address, 4)
         IN  IF parity_char \notin DecChars \/ parity_char = "9" THEN FALSE
             ELSE LET body == SubSeq(address, 5, Len(address))
                  IN  Len(body) = 36 /\ AllCharsIn(body, Base58Chars58)

\* a variant without the subtraction of 1 << 48
MIN_SALT_without_offset == BigPow2(53)

MIN_SALT == BigSub(BigPow2(53), BigPow2(48))

\* random_bytes: the six bytes drawn from the generator
generate_salt(random_bytes) ==
    LET random_int == BigFromBytes(<<0, 0>> \o random_bytes)
        salt == BigAdd(MIN_SALT, random_int)
    IN  BigToDec(salt)

----------------------------------------------------------------------------
(* currency_transaction.rs: encoding and framing                            *)

RECURSIVE StripUnderscores(_)
StripUnderscores(s) ==
    IF s = "" THEN ""
    ELSE (IF CharAt(s, 1) = "_" THEN "" ELSE CharAt(s, 1)) \o StripUnderscores(SubSeq(s, 2, Len(s)))

\* salt.parse::<BigUint>(): an optional '+', then decimal digits, which may
\* be separated by underscores; anything else is an error
ParseBigUint(salt) ==
    LET s == IF StartsWith(salt, "+") /\ ~StartsWith(salt, "++")
             THEN SubSeq(salt, 2, Len(salt)) ELSE salt
    IN  IF s = "" THEN Err("ParseBigIntError")
        ELSE IF StartsWith(s, "_") THEN Err("ParseBigIntError")
        ELSE IF ~AllCharsIn(s, DecChars \cup {"_"}) THEN Err("ParseBigIntError")
        ELSE IF StripUnderscores(s) = "" THEN Err("ParseBigIntError")
        ELSE Ok(BigFromDec(StripUnderscores(s)))

\* one field of encode_transaction: its length, then its text
LenPrefixed(field) == ToString(StrLen(field)) \o field

\* a variant that writes the fee before the ordinal
EncodeFields_fee_before_ordinal(value, salt_int) ==
    "2"
    \o LenPrefixed(value.source)
    \o LenPrefixed(value.destination)
    \o LenPrefixed(HexOfI64(value.amount))
    \o LenPrefixed(value.parent.hash)
    \o LenPrefixed(ToString(value.fee))
    \o LenPrefixed(ToString(value.parent.ordinal))
    \o LenPrefixed(BigToHex(salt_int))

\* a variant that leaves the salt out
EncodeFields_without_salt(value, salt_int) ==
    "2"
    \o LenPrefixed(value.source)
    \o LenPrefixed(value.destination)
    \o LenPrefixed(HexOfI64(value.amount))
    \o LenPrefixed(value.parent.hash)
    \o LenPrefixed(ToString(value.parent.ordinal))
    \o LenPrefixed(ToString(value.fee))

\* the string of encode_transaction for a value whose salt parses
EncodeFields(value, salt_int) ==
    LET parent_count == "2"
        source == value.source
        destination == value.destination
        amount_hex == HexOfI64(value.amount)
        parent_hash == value.parent.hash
        ordinal == ToString(value.parent.ordinal)
        fee == ToString(value.fee)
        salt_hex == BigToHex(salt_int)
    IN  parent_count
        \o LenPrefixed(source)
        \o LenPrefixed(destination)
        \o LenPrefixed(amount_hex)
        \o LenPrefixed(parent_hash)
        \o LenPrefixed(ordinal)
        \o LenPrefixed(fee)
        \o LenPrefixed(salt_hex)

\* encode_transaction: Ok(string), or Panic when the unwrap of the salt fails
encode_transaction(tx) ==
    Let(ParseBigUint(tx.value.salt), LAMBDA salt_int :
        IF ~salt_int.ok THEN Panic ELSE Ok(EncodeFields(tx.value, salt_int.val)))

\* the variable-length integer of kryo_serialize; "as u8" keeps the low byte
utf8_length(value) ==
    IF value \div 2^6 = 0 THEN
        <<(value % 128) + 128>>
    ELSE IF value \div 2^13 = 0 THEN
        <<(value % 64) + 192, (value \div 2^6) % 256>>
    ELSE IF value \div 2^20 = 0 THEN
        <<(value % 64) + 192, ((value \div 2^6) % 128) + 128, (value \div 2^13) % 256>>
    ELSE IF value \div 2^27 = 0 THEN
        <<(value % 64) + 192, ((value \div 2^6) % 128) + 128,
          ((value \div 2^13) % 128) + 128, (value \div 2^20) % 256>>
    ELSE
        <<(value % 64) + 192, ((value \div 2^6) % 128) + 128,
          ((value \div 2^13) % 128) + 128, ((value \div 2^20) % 128) + 128,
          (value \div 2^27) % 256>>

\* a variant that always writes the references byte
kryo_serialize_with_references(msg, set_references) ==
    <<3, 1>> \o utf8_length(Len(msg) + 1) \o AsBytes(msg)

kryo_serialize(msg, set_references) ==
    LET header == IF set_references THEN <<3, 1>> ELSE <<3>>
        length == Len(msg) + 1
    IN  header \o utf8_length(length) \o AsBytes(msg)

\* a variant that hashes the number of proofs along with the value
TransactionHashHex_with_proofs(tx) ==
    Try(encode_transaction(tx), LAMBDA encoded :
        Ok(Sha256Hex(kryo_serialize(encoded \o ToString(Len(tx.proofs)), FALSE))))

\* encode, frame with set_references = false, SHA-256, hex
\* (lines 271-276, 327-332, 368-373, 404-408)
TransactionHashHex(tx) ==
    Try(encode_transaction(tx), LAMBDA encoded :
        Ok(Sha256Hex(kryo_serialize(encoded, FALSE))))

----------------------------------------------------------------------------
(* ECDSA over secp256k1, ideal                                              *)

\* hex of the DER signature by the key with public key pub over digest.
\* "sig:" is the low-S form that sign_ecdsa emits, "SIG:" its high-S twin
\* (r, N - s).
SigTerm(pub, digest, high_s) ==
    (IF high_s THEN "SIG:" ELSE "sig:") \o pub \o ":" \o digest

IsSigTerm(s) ==
    /\ Len(s) > 135
    /\ SubSeq(s, 1, 4) \in {"sig:", "SIG:"}
    /\ CharAt(s, 135) = ":"

SigPub(s) == SubSeq(s, 5, 134)
SigDigest(s) == SubSeq(s, 136, Len(s))
SigHighS(s) == SubSeq(s, 1, 4) = "SIG:"

\* hex::decode(signature_hex) succeeds
SignatureIsHex(signature_hex) == IsSigTerm(signature_hex) \/ IsHex(signature_hex)

\* Signature::from_der succeeds: a signature term, or bytes that open a DER
\* sequence (0x30)
SignatureIsDer(signature_hex) ==
    \/ IsSigTerm(signature_hex)
    \/ /\ IsHex(signature_hex)
       /\ Len(signature_hex) >= 2
       /\ HexDecode(signature_hex)[1] = 48

\* Signature::normalize_s on a signature term
normalize_s(signature_hex) ==
    IF IsSigTerm(signature_hex)
    THEN SigTerm(SigPub(signature_hex), SigDigest(signature_hex), FALSE)
    ELSE signature_hex

\* secp.verify_ecdsa: only a low-S signature made by the key of public_key
\* over this digest verifies
verify_ecdsa(digest, signature, public_key_bytes) ==
    /\ IsSigTerm(signature)
    /\ ~SigHighS(signature)
    /\ HexDecode(SigPub(signature)) = public_key_bytes
    /\ SigDigest(signature) = digest

\* a variant that signs the SHA-256 digest itself, without the SHA-512 stage
sign_hash_without_sha512(hash_hex, private_key_hex) ==
    Try(SecretKeyFromHex(private_key_hex), LAMBDA secret_key :
        Ok(SigTerm(PublicKeyOf[secret_key], hash_hex, FALSE)))

sign_hash_internal(hash_hex, private_key_hex) ==
    Let(Sha512Trunc(hash_hex), LAMBDA digest :
    Try(SecretKeyFromHex(private_key_hex), LAMBDA secret_key :
        Ok(SigTerm(PublicKeyOf[secret_key], digest, FALSE))))

\* a variant that checks the form of the key and of the signature only
verify_hash_form_only(public_key_hex, hash_hex, signature_hex) ==
    /\ IsHex(public_key_hex)
    /\ IsCurvePoint(HexDecode(public_key_hex))
    /\ SignatureIsHex(signature_hex)
    /\ SignatureIsDer(signature_hex)

\* a variant that checks the signature as given, without normalize_s
verify_hash_without_normalize(public_key_hex, hash_hex, signature_hex) ==
    /\ IsHex(public_key_hex)
    /\ IsCurvePoint(HexDecode(public_key_hex))
    /\ SignatureIsHex(signature_hex)
    /\ SignatureIsDer(signature_hex)
    /\ verify_ecdsa(Sha512Trunc(hash_hex), signature_hex, HexDecode(public_key_hex))

verify_hash_internal(public_key_hex, hash_hex, signature_hex) ==
    LET digest == Sha512Trunc(hash_hex)
    IN  IF ~IsHex(public_key_hex) THEN FALSE
        ELSE IF ~IsCurvePoint(HexDecode(public_key_hex)) THEN FALSE
        ELSE IF ~SignatureIsHex(signature_hex) THEN FALSE
        ELSE IF ~SignatureIsDer(signature_hex) THEN FALSE
        ELSE verify_ecdsa(digest, normalize_s(signature_hex), HexDecode(public_key_hex))

----------------------------------------------------------------------------
(* currency_transaction.rs: operations                                      *)

\* overflow-checks on (a debug build) or off (a release build)
Builds == {"debug", "release"}

\* a + b on i64
AddI64(build, a, b) ==
    IF a + b \in I64 THEN Ok(a + b)
    ELSE IF build = "debug" THEN Panic
    ELSE Ok(WrapI64(a + b))

create_currency_transaction(params, private_key, last_ref, random_bytes) ==
    Try(SecretKeyFromHex(private_key), LAMBDA secret_key :
    Let(PublicKeyOf[secret_key], LAMBDA public_key_hex :
    Let(get_address(public_key_hex), LAMBDA source :
        IF ~is_valid_dag_address(source) THEN Err("InvalidAddress")
        ELSE IF ~is_valid_dag_address(params.destination) THEN Err("InvalidAddress")
        ELSE IF source = params.destination THEN Err("InvalidAddress")
        ELSE
        Let(token_to_units(params.amount), LAMBDA amount :
        Let(token_to_units(params.fee), LAMBDA fee :
            IF amount < 1 THEN Err("InvalidAmount")
            ELSE IF fee < 0 THEN Err("InvalidAmount")
            ELSE
            Let([value |-> [source |-> source,
                            destination |-> params.destination,
                            amount |-> amount,
                            fee |-> fee,
                            parent |-> last_ref,
                            salt |-> generate_salt(random_bytes)],
                 proofs |-> <<>>], LAMBDA tx :
            Try(TransactionHashHex(tx), LAMBDA hash_hex :
            Try(sign_hash_internal(hash_hex, private_key), LAMBDA signature :
                LET public_key_id == SubSeq(public_key_hex, 3, Len(public_key_hex))
                    proof == [id |-> public_key_id, signature |-> signature]
                IN  Ok([tx EXCEPT !.proofs = Append(tx.proofs, proof)])))))))))

\* Ok([value, bytes-as-hex]) or Panic
hash_currency_transaction(transaction) == TransactionHashHex(transaction)

encode_currency_transaction(transaction) == encode_transaction(transaction)

get_transaction_reference(transaction, ordinal) ==
    Try(hash_currency_transaction(transaction), LAMBDA hash :
        Ok([hash |-> hash, ordinal |-> ordinal]))

\* a variant whose is_valid does not ask for a proof
verify_without_presence_check(transaction) ==
    Try(TransactionHashHex(transaction), LAMBDA hash_hex :
        LET IsValid(proof) == verify_hash_internal("04" \o proof.id, hash_hex, proof.signature)
        IN  Let(SelectSeq(transaction.proofs, IsValid), LAMBDA valid_proofs :
            Let(SelectSeq(transaction.proofs, LAMBDA p : ~IsValid(p)), LAMBDA invalid_proofs :
                Ok([is_valid |-> invalid_proofs = <<>>,
                    valid_proofs |-> valid_proofs,
                    invalid_proofs |-> invalid_proofs]))))

\* a variant that stops trusting the proofs after the first invalid one
verify_until_first_invalid(transaction) ==
    Try(TransactionHashHex(transaction), LAMBDA hash_hex :
        LET IsValid(proof) == verify_hash_internal("04" \o proof.id, hash_hex, proof.signature)
            n == Len(transaction.proofs)
        IN  Let({i \in 1..n : ~IsValid(transaction.proofs[i])}, LAMBDA Bad :
            Let(IF Bad = {} THEN n + 1 ELSE CHOOSE i \in Bad : \A j \in Bad : i <= j,
                LAMBDA first :
                Ok([is_valid |-> first = n + 1 /\ n > 0,
                    valid_proofs |-> SubSeq(transaction.proofs, 1, first - 1),
                    invalid_proofs |-> SubSeq(transaction.proofs, first, n)]))))

\* a variant that reports a proof that is not hex as an error
verify_with_decode_errors(transaction) ==
    Try(TransactionHashHex(transaction), LAMBDA hash_hex :
        IF \E i \in 1..Len(transaction.proofs) :
                \/ ~IsHex(transaction.proofs[i].id)
                \/ ~SignatureIsHex(transaction.proofs[i].signature)
        THEN Err("InvalidSignature")
        ELSE
        LET IsValid(proof) == verify_hash_internal("04" \o proof.id, hash_hex, proof.signature)
        IN  Let(SelectSeq(transaction.proofs, IsValid), LAMBDA valid_proofs :
            Let(SelectSeq(transaction.proofs, LAMBDA p : ~IsValid(p)), LAMBDA invalid_proofs :
                Ok([is_valid |-> invalid_proofs = <<>> /\ valid_proofs # <<>>,
                    valid_proofs |-> valid_proofs,
                    invalid_proofs |-> invalid_proofs]))))

\* a variant that prepends 04 only to an id of 128 characters
verify_with_normalized_id(transaction) ==
    Try(TransactionHashHex(transaction), LAMBDA hash_hex :
        LET IsValid(proof) ==
                verify_hash_internal(normalize_public_key(proof.id), hash_hex, proof.signature)
        IN  Let(SelectSeq(transaction.proofs, IsValid), LAMBDA valid_proofs :
            Let(SelectSeq(transaction.proofs, LAMBDA p : ~IsValid(p)), LAMBDA invalid_proofs :
                Ok([is_valid |-> invalid_proofs = <<>> /\ valid_proofs # <<>>,
                    valid_proofs |-> valid_proofs,
                    invalid_proofs |-> invalid_proofs]))))

verify_currency_transaction(transaction) ==
    Try(TransactionHashHex(transaction), LAMBDA hash_hex :
        LET IsValid(proof) == verify_hash_internal("04" \o proof.id, hash_hex, proof.signature)
        IN  Let(SelectSeq(transaction.proofs, IsValid), LAMBDA valid_proofs :
            Let(SelectSeq(transaction.proofs, LAMBDA p : ~IsValid(p)), LAMBDA invalid_proofs :
                Ok([is_valid |-> invalid_proofs = <<>> /\ valid_proofs # <<>>,
                    valid_proofs |-> valid_proofs,
                    invalid_proofs |-> invalid_proofs]))))

\* a variant that puts the new proof first
sign_currency_transaction_in_front(transaction, private_key) ==
    Try(TransactionHashHex(transaction), LAMBDA hash_hex :
    Try(sign_hash_internal(hash_hex, private_key), LAMBDA signature :
    Let(PublicKeyOf[SecretKeyFromHex(private_key).val], LAMBDA public_key_hex :
        LET proof == [id |-> SubSeq(public_key_hex, 3, Len(public_key_hex)),
                      signature |-> signature]
        IN  Ok([ret |-> [value |-> transaction.value,
                         proofs |-> <<proof>> \o transaction.proofs],
                arg |-> transaction]))))

\* Ok([ret |-> the new envelope, arg |-> the borrowed envelope after the call])
sign_currency_transaction(transaction, private_key) ==
    Try(TransactionHashHex(transaction), LAMBDA hash_hex :
    Try(sign_hash_internal(hash_hex, private_key), LAMBDA signature :
    Let(PublicKeyOf[SecretKeyFromHex(private_key).val], LAMBDA public_key_hex :
        IF ~verify_hash_internal(public_key_hex, hash_hex, signature)
        THEN Err("InvalidSignature")
        ELSE
        LET public_key_id == SubSeq(public_key_hex, 3, Len(public_key_hex))
            proof == [id |-> public_key_id, signature |-> signature]
            new_proofs == Append(transaction.proofs, proof)
        IN  Ok([ret |-> [value |-> transaction.value, proofs |-> new_proofs],
                arg |-> transaction]))))

\* the loop of create_currency_transaction_batch; randoms[i] are the random
\* bytes drawn for the i-th transfer
RECURSIVE BatchLoop(_, _, _, _, _, _)
BatchLoop(build, transfers, private_key, current_ref, randoms, transactions) ==
    IF transfers = <<>> THEN Ok(transactions)
    ELSE
    Try(create_currency_transaction(Head(transfers), private_key, current_ref, Head(randoms)),
        LAMBDA tx :
    Try(hash_currency_transaction(tx), LAMBDA hash_result :
    Try(AddI64(build, current_ref.ordinal, 1), LAMBDA ordinal :
        BatchLoop(build, Tail(transfers), private_key,
                  [hash |-> hash_result, ordinal |-> ordinal],
                  Tail(randoms), Append(transactions, tx)))))

create_currency_transaction_batch(build, transfers, private_key, last_ref, randoms) ==
    BatchLoop(build, transfers, private_key, last_ref, randoms, <<>>)

----------------------------------------------------------------------------
(* Signed objects over JSON values: canonicalize.rs, sign.rs, and the       *)
(* modules binary, hash, verify and signed_object that lib.rs:62-69 names   *)

\* a JSON value tree: strings and integers at the leaves, arrays, and objects
\* whose members are kept in the order they were written
JStr(s) == [t |-> "str", s |-> s]
JNum(n) == [t |-> "num", n |-> n]
JArr(items) == [t |-> "arr", items |-> items]
JObj(members) == [t |-> "obj", members |-> members]
Member(key, value) == [key |-> key, value |-> value]

\* order of two keys by code unit
RECURSIVE KeyLess(_, _)
KeyLess(a, b) ==
    IF b = "" THEN FALSE
    ELSE IF a = "" THEN TRUE
    ELSE Let(Ord[CharAt(a, 1)], LAMBDA x :
         Let(Ord[CharAt(b, 1)], LAMBDA y :
             IF x # y THEN x < y
             ELSE KeyLess(SubSeq(a, 2, Len(a)), SubSeq(b, 2, Len(b)))))

\* a canonicalizer that writes the members in the order it finds them
SortMembers_as_written(members) == members

RECURSIVE SortMembers(_)
SortMembers(members) ==
    IF members = <<>> THEN <<>>
    ELSE Let(CHOOSE i \in 1..Len(members) :
                \A j \in 1..Len(members) :
                    j = i \/ KeyLess(members[i].key, members[j].key)
                          \/ (members[i].key = members[j].key /\ i < j),
             LAMBDA least :
                <<members[least]>>
                \o SortMembers(SubSeq(members, 1, least - 1)
                               \o SubSeq(members, least + 1, Len(members))))

\* the bytes of the canonical JSON of a value: members in key order, no
\* whitespace, arrays in their order (strings of the model need no escape)
RECURSIVE CanonicalBytes(_)
RECURSIVE CanonicalJoin(_, _)
CanonicalJoin(parts, is_members) ==
    IF parts = <<>> THEN <<>>
    ELSE (IF is_members
          THEN <<34>> \o AsBytes(parts[1].key) \o <<34, 58>> \o CanonicalBytes(parts[1].value)
          ELSE CanonicalBytes(parts[1]))
         \o (IF Len(parts) > 1 THEN <<44>> ELSE <<>>)
         \o CanonicalJoin(Tail(parts), is_members)

CanonicalBytes(v) ==
    IF v.t = "str" THEN <<34>> \o AsBytes(v.s) \o <<34>>
    ELSE IF v.t = "num" THEN AsBytes(ToString(v.n))
    ELSE IF v.t = "arr" THEN <<91>> \o CanonicalJoin(v.items, FALSE) \o <<93>>
    ELSE <<123>> \o CanonicalJoin(SortMembers(v.members), TRUE) \o <<125>>

\* canonicalize: the canonical JSON text, held as its UTF-8 bytes
canonicalize(data) == Ok(CanonicalBytes(data))

canonicalize_bytes(data) == Ok(CanonicalBytes(data))

\* a variant without the leading byte 0x19
CONSTELLATION_PREFIX_without_marker == AsBytes("Constellation Signed Data:") \o <<10>>

\* 0x19 and "Constellation Signed Data:\n"
CONSTELLATION_PREFIX == <<25>> \o AsBytes("Constellation Signed Data:") \o <<10>>

to_bytes(data, is_data_update) ==
    Try(canonicalize_bytes(data), LAMBDA canonical :
        Ok(IF is_data_update THEN CONSTELLATION_PREFIX \o canonical ELSE canonical))

\* the value field of the Hash of hash_bytes
hash_bytes(bytes) == Sha256Hex(bytes)

compute_digest_from_hash(hash_hex) == Sha512Trunc(hash_hex)

\* a variant that signs the SHA-256 digest itself
sign_hash_of_content_digest(hash_hex, private_key) ==
    Try(SecretKeyFromHex(private_key), LAMBDA secret_key :
        Ok(SigTerm(PublicKeyOf[secret_key], hash_hex, FALSE)))

sign_hash(hash_hex, private_key) ==
    Try(SecretKeyFromHex(private_key), LAMBDA secret_key :
        LET digest == compute_digest_from_hash(hash_hex)
        IN  Ok(SigTerm(PublicKeyOf[secret_key], digest, FALSE)))

sign(data, private_key) ==
    Try(to_bytes(data, FALSE), LAMBDA bytes :
    Try(sign_hash(hash_bytes(bytes), private_key), LAMBDA signature :
    Try(get_public_key_id(private_key), LAMBDA id :
        Ok([id |-> id, signature |-> signature]))))

\* a variant that signs the bytes of the regular mode
sign_data_update_without_prefix(data, private_key) == sign(data, private_key)

sign_data_update(data, private_key) ==
    Try(to_bytes(data, TRUE), LAMBDA bytes :
    Try(sign_hash(hash_bytes(bytes), private_key), LAMBDA signature :
    Try(get_public_key_id(private_key), LAMBDA id :
        Ok([id |-> id, signature |-> signature]))))

\* verify_hash(hash_hex, signature, public_key_id): section 4.5 of the
\* design, false on every failure
verify_hash(hash_hex, signature, public_key_id) ==
    Let(normalize_public_key(public_key_id), LAMBDA public_key :
        LET digest == compute_digest_from_hash(hash_hex)
        IN  /\ IsHex(public_key)
            /\ IsCurvePoint(HexDecode(public_key))
            /\ SignatureIsHex(signature)
            /\ SignatureIsDer(signature)
            /\ verify_ecdsa(digest, normalize_s(signature), HexDecode(public_key)))

verify_signature(data, proof, is_data_update) ==
    Try(to_bytes(data, is_data_update), LAMBDA bytes :
        Ok(verify_hash(hash_bytes(bytes), proof.signature, proof.id)))

\* verify(signed, is_data_update): a VerificationResult, invalid for a value
\* that has no bytes
verify(signed, is_data_update) ==
    Let(to_bytes(signed.value, is_data_update), LAMBDA bytes :
        LET IsValid(proof) == verify_hash(hash_bytes(bytes.val), proof.signature, proof.id)
        IN  Let(IF bytes.ok THEN SelectSeq(signed.proofs, IsValid) ELSE <<>>,
                LAMBDA valid_proofs :
            Let(IF bytes.ok THEN SelectSeq(signed.proofs, LAMBDA p : ~IsValid(p))
                ELSE signed.proofs, LAMBDA invalid_proofs :
                [is_valid |-> invalid_proofs = <<>> /\ valid_proofs # <<>>,
                 valid_proofs |-> valid_proofs,
                 invalid_proofs |-> invalid_proofs])))

create_signed_object(value, private_key, is_data_update) ==
    Try(IF is_data_update THEN sign_data_update(value, private_key)
        ELSE sign(value, private_key), LAMBDA proof :
        Ok([value |-> value, proofs |-> <<proof>>]))

add_signature(signed, private_key, is_data_update) ==
    Try(IF is_data_update THEN sign_data_update(signed.value, private_key)
        ELSE sign(signed.value, private_key), LAMBDA proof :
        Ok([value |-> signed.value, proofs |-> Append(signed.proofs, proof)]))

RECURSIVE BatchProofs(_, _, _, _)
BatchProofs(value, private_keys, is_data_update, proofs) ==
    IF private_keys = <<>> THEN Ok(proofs)
    ELSE Try(IF is_data_update THEN sign_data_update(value, Head(private_keys))
             ELSE sign(value, Head(private_keys)), LAMBDA proof :
             BatchProofs(value, Tail(private_keys), is_data_update, Append(proofs, proof)))

batch_sign(value, private_keys, is_data_update) ==
    IF private_keys = <<>> THEN Err("NoPrivateKeys")
    ELSE Try(BatchProofs(value, private_keys, is_data_update, <<>>), LAMBDA proofs :
             Ok([value |-> value, proofs |-> proofs]))

----------------------------------------------------------------------------
(* State: the envelope a caller holds and the last call made on it          *)

VARIABLES
    tx,        \* <<>> or <<envelope>>: the currency transaction the caller holds
    pristine,  \* tx came from create and sign calls only, no field was edited
    obj,       \* <<>> or <<signed object>>, with the keys and flags that made its proofs
    call,      \* the last call or edit: its name, its inputs and its result
    cli        \* the run of the command-line program: its position, the file and
               \* network operations it made, its exit status

vars == <<tx, pristine, obj, call, cli>>

\* inputs of the calls
Address1 == get_address(PublicKeyOf[PrivateKey1])
Address2 == get_address(PublicKeyOf[PrivateKey2])
Address3 == get_address(PublicKeyOf[PrivateKey3])

ValidKeys == {PrivateKey1, PrivateKey2}
KeySamples == ValidKeys \cup {"invalid", Repeat("0", 64)}
DestinationSamples == {Address1, Address2, "invalid"}
AmountSamples == {F64(-1), F64(0), F64(TicksPerUnit - 1), F64(TicksPerUnit), F64(2 * TicksPerUnit + 1),
                  F64((I64_MAX + 2) * TicksPerUnit), NaN}
FeeSamples == {F64(-1), F64(0), F64(TicksPerUnit)}
ParentHashA == Repeat("a", 64)
RefSamples == {[hash |-> ParentHashA, ordinal |-> 0],
               [hash |-> ParentHashA, ordinal |-> I64_MAX - 1],
               [hash |-> ParentHashA, ordinal |-> I64_MAX]}
RandomSamples == {<<0, 0, 0, 0, 0, 0>>, <<255, 255, 255, 255, 255, 255>>}

Init ==
    /\ tx = <<>>
    /\ pristine = FALSE
    /\ obj = <<>>
    /\ call = [op |-> "none"]
    /\ cli = [pc |-> "main", generate_keypair |-> FALSE, events |-> <<>>, exit |-> -1,
              failed |-> "none", config |-> <<>>, last_ref |-> <<>>, created |-> <<>>,
              verified |-> FALSE]

----------------------------------------------------------------------------
(* Calls on one currency transaction                                        *)

\* the creator and the transfer of the transaction whose life Spec follows
Creator == PrivateKey1
CreatorParams == [destination |-> Address2, amount |-> F64(TicksPerUnit), fee |-> F64(0)]
CreatorRef == [hash |-> ParentHashA, ordinal |-> 0]

\* the first call of a caller
Create(private_key, params, last_ref, random_bytes) ==
    /\ call.op = "none"
    /\ \E result \in {create_currency_transaction(params, private_key, last_ref, random_bytes)} :
           /\ call' = [op |-> "create", private_key |-> private_key, params |-> params,
                       last_ref |-> last_ref, random_bytes |-> random_bytes, result |-> result]
           /\ tx' = IF result.ok THEN <<result.val>> ELSE tx
           /\ pristine' = IF result.ok THEN TRUE ELSE pristine
           /\ obj' = obj
           /\ cli' = cli

CreateCall ==
    \E random_bytes \in RandomSamples :
        Create(Creator, CreatorParams, CreatorRef, random_bytes)

Sign(private_key) ==
    /\ tx # <<>>
    /\ Len(tx[1].proofs) < MaxProofs
    /\ \E result \in {sign_currency_transaction(tx[1], private_key)} :
           /\ call' = [op |-> "sign", private_key |-> private_key, input |-> tx[1],
                       result |-> result]
           /\ tx' = IF result.ok THEN <<result.val.ret>> ELSE tx
           /\ pristine' = pristine
           /\ obj' = obj
           /\ cli' = cli

SignCall == \E private_key \in ValidKeys \cup {"invalid"} : Sign(private_key)

VerifyCall ==
    /\ tx # <<>>
    /\ call' = [op |-> "verify", input |-> tx[1],
                result |-> verify_currency_transaction(tx[1])]
    /\ UNCHANGED <<tx, pristine, obj, cli>>

\* The fields of an envelope are public: a caller may rebuild it with another
\* value or other proofs (tests/currency_transaction.rs:283,
\* tests/integration.rs:210, 247).  An envelope is edited once.
ValueEdits == {"amount", "fee", "destination", "ordinal", "salt_sign", "salt_text",
               "salt_empty", "salt_negative"}

EditedValue(value, edit) ==
    IF edit = "amount" THEN [value EXCEPT !.amount = I64_MAX]
    ELSE IF edit = "fee" THEN [value EXCEPT !.fee = 1]
    ELSE IF edit = "destination" THEN [value EXCEPT !.destination = Address3]
    ELSE IF edit = "salt_sign" THEN [value EXCEPT !.salt = "+" \o value.salt]
    ELSE IF edit = "salt_text" THEN [value EXCEPT !.salt = "abc"]
    ELSE IF edit = "salt_empty" THEN [value EXCEPT !.salt = ""]
    ELSE IF edit = "salt_negative" THEN [value EXCEPT !.salt = "-5"]
    ELSE [value EXCEPT !.parent.ordinal = 1]

SetValue(edit) ==
    /\ tx # <<>>
    /\ pristine
    /\ call' = [op |-> "set_value", input |-> tx[1], edit |-> edit]
    /\ tx' = <<[tx[1] EXCEPT !.value = EditedValue(tx[1].value, edit)]>>
    /\ pristine' = FALSE
    /\ obj' = obj
    /\ cli' = cli

SetValueCall == \E edit \in ValueEdits : SetValue(edit)

\* 64 bytes that are not the coordinates of a curve point
ZeroId == Repeat("0", 128)

ProofEdits == {"text_signature", "not_der", "other_der", "text_id", "not_point",
               "other_signer", "high_s", "full_key"}

EditedProof(proof, edit) ==
    IF edit = "text_signature" THEN [proof EXCEPT !.signature = "invalid_signature"]
    ELSE IF edit = "not_der" THEN [proof EXCEPT !.signature = "00ff"]
    ELSE IF edit = "other_der" THEN [proof EXCEPT !.signature = "3006020101020101"]
    ELSE IF edit = "text_id" THEN [proof EXCEPT !.id = "zz" \o SubSeq(proof.id, 3, Len(proof.id))]
    ELSE IF edit = "not_point" THEN [proof EXCEPT !.id = ZeroId]
    ELSE IF edit = "other_signer" THEN
        [proof EXCEPT !.id = SubSeq(PublicKeyOf[PrivateKey3], 3, 130)]
    ELSE IF edit = "high_s" THEN
        [proof EXCEPT !.signature =
            IF IsSigTerm(proof.signature)
            THEN SigTerm(SigPub(proof.signature), SigDigest(proof.signature), TRUE)
            ELSE proof.signature]
    ELSE [proof EXCEPT !.id = "04" \o proof.id]

SetProof(index, edit) ==
    /\ tx # <<>>
    /\ pristine
    /\ index \in 1..Len(tx[1].proofs)
    /\ call' = [op |-> "set_proof", input |-> tx[1], index |-> index, edit |-> edit]
    /\ tx' = <<[tx[1] EXCEPT !.proofs[index] = EditedProof(tx[1].proofs[index], edit)]>>
    /\ pristine' = FALSE
    /\ obj' = obj
    /\ cli' = cli

SetProofCall == \E index \in 1..MaxProofs, edit \in ProofEdits : SetProof(index, edit)

ClearProofs ==
    /\ tx # <<>>
    /\ pristine
    /\ call' = [op |-> "clear_proofs", input |-> tx[1]]
    /\ tx' = <<[tx[1] EXCEPT !.proofs = <<>>]>>
    /\ pristine' = FALSE
    /\ obj' = obj
    /\ cli' = cli

Next ==
    \/ CreateCall
    \/ SignCall
    \/ VerifyCall
    \/ SetValueCall
    \/ SetProofCall
    \/ ClearProofs

Spec == Init /\ [][Next]_vars

----------------------------------------------------------------------------
(* Calls of create_currency_transaction over its inputs                     *)

CreateAnyCall ==
    \E private_key \in KeySamples, destination \in DestinationSamples,
       amount \in AmountSamples, fee \in FeeSamples,
       last_ref \in RefSamples, random_bytes \in RandomSamples :
        Create(private_key, [destination |-> destination, amount |-> amount, fee |-> fee],
               last_ref, random_bytes)

SpecCreate == Init /\ [][CreateAnyCall]_vars

----------------------------------------------------------------------------
(* Calls of create_currency_transaction_batch                               *)

TransferSamples ==
    {[destination |-> Address2, amount |-> F64(TicksPerUnit), fee |-> F64(0)],
     [destination |-> Address3, amount |-> F64(2 * TicksPerUnit + 1), fee |-> F64(TicksPerUnit)],
     [destination |-> Address2, amount |-> F64(0), fee |-> F64(0)]}

\* the first call of a caller
Batch(build, transfers, private_key, last_ref, randoms) ==
    /\ call.op = "none"
    /\ call' = [op |-> "batch", build |-> build, transfers |-> transfers,
                private_key |-> private_key, last_ref |-> last_ref, randoms |-> randoms,
                result |-> create_currency_transaction_batch(build, transfers, private_key,
                                                             last_ref, randoms)]
    /\ UNCHANGED <<tx, pristine, obj, cli>>

BatchCall ==
    \E build \in Builds, n \in 0..MaxBatch, private_key \in {PrivateKey1, "invalid"},
       last_ref \in RefSamples :
        \E transfers \in [1..n -> TransferSamples], randoms \in [1..n -> RandomSamples] :
            Batch(build, transfers, private_key, last_ref, randoms)

SpecBatch == Init /\ [][BatchCall]_vars

----------------------------------------------------------------------------
(* Calls on one signed object                                               *)

SignerKeys == {PrivateKey1, PrivateKey2, PrivateKey3}

\* the value of the signed object whose life SpecSigned follows
ObjectValue == JObj(<<Member("b", JNum(2)), Member("a", JArr(<<JNum(1), JStr("x")>>))>>)

ValueSamples == {JObj(<<Member("id", JStr("test"))>>), ObjectValue}

\* sign or sign_data_update of a value, by the mode; the first call of a caller
SignValue(data, private_key, is_data_update) ==
    /\ call.op = "none"
    /\ call' = [op |-> "sign_value", data |-> data, private_key |-> private_key,
                is_data_update |-> is_data_update,
                result |-> IF is_data_update THEN sign_data_update(data, private_key)
                           ELSE sign(data, private_key)]
    /\ UNCHANGED <<tx, pristine, obj, cli>>

SignValueCall ==
    \E data \in ValueSamples, private_key \in SignerKeys \cup {"invalid"},
       is_data_update \in BOOLEAN :
        SignValue(data, private_key, is_data_update)

\* the first call of a caller
CreateSigned(value, private_key, is_data_update) ==
    /\ call.op = "none"
    /\ \E result \in {create_signed_object(value, private_key, is_data_update)} :
           /\ call' = [op |-> "create_signed", value |-> value, private_key |-> private_key,
                       is_data_update |-> is_data_update, result |-> result]
           /\ obj' = IF result.ok
                     THEN <<[signed |-> result.val, value |-> value,
                             keys |-> <<private_key>>, flags |-> <<is_data_update>>]>>
                     ELSE obj
    /\ UNCHANGED <<tx, pristine, cli>>

CreateSignedCall ==
    \E private_key \in SignerKeys \cup {"invalid"}, is_data_update \in BOOLEAN :
        CreateSigned(ObjectValue, private_key, is_data_update)

AddSignature(private_key, is_data_update) ==
    /\ obj # <<>>
    /\ Len(obj[1].signed.proofs) < MaxProofs
    /\ \E result \in {add_signature(obj[1].signed, private_key, is_data_update)} :
           /\ call' = [op |-> "add_signature", input |-> obj[1].signed,
                       private_key |-> private_key, is_data_update |-> is_data_update,
                       result |-> result]
           /\ obj' = IF result.ok
                     THEN <<[obj[1] EXCEPT !.signed = result.val,
                                           !.keys = Append(@, private_key),
                                           !.flags = Append(@, is_data_update)]>>
                     ELSE obj
    /\ UNCHANGED <<tx, pristine, cli>>

AddSignatureCall ==
    \E private_key \in SignerKeys \cup {"invalid"}, is_data_update \in BOOLEAN :
        AddSignature(private_key, is_data_update)

VerifySigned(is_data_update) ==
    /\ obj # <<>>
    /\ call' = [op |-> "verify_signed", input |-> obj[1].signed,
                is_data_update |-> is_data_update,
                result |-> verify(obj[1].signed, is_data_update)]
    /\ UNCHANGED <<tx, pristine, obj, cli>>

VerifySignedCall == \E is_data_update \in BOOLEAN : VerifySigned(is_data_update)

\* the first call of a caller
BatchSign(value, private_keys, is_data_update) ==
    /\ call.op = "none"
    /\ call' = [op |-> "batch_sign", value |-> value, private_keys |-> private_keys,
                is_data_update |-> is_data_update,
                result |-> batch_sign(value, private_keys, is_data_update)]
    /\ UNCHANGED <<tx, pristine, obj, cli>>

BatchSignCall ==
    \E value \in ValueSamples, n \in 0..MaxProofs, is_data_update \in BOOLEAN :
        \E private_keys \in [1..n -> SignerKeys \cup {"invalid"}] :
            BatchSign(value, private_keys, is_data_update)

NextSigned ==
    \/ SignValueCall
    \/ CreateSignedCall
    \/ AddSignatureCall
    \/ VerifySignedCall
    \/ BatchSignCall

SpecSigned == Init /\ [][NextSigned]_vars

----------------------------------------------------------------------------
(* currency_types.rs: the JSON form of a CurrencyTransactionValue            *)

\* the untagged StringOrNumber: a JSON string as it is, a JSON integer that
\* fits an i64 as its decimal text, anything else is refused
deserialize_salt(json) ==
    IF json.t = "str" THEN Ok(json.s)
    ELSE IF json.t = "num" /\ json.n \in I64 THEN Ok(ToString(json.n))
    ELSE Err("data did not match any variant of untagged enum StringOrNumber")

\* Deserialize of CurrencyTransactionValue; fields holds the typed fields and
\* the JSON value found under "salt"
deserialize_value(fields) ==
    Try(deserialize_salt(fields.salt), LAMBDA salt :
        Ok([source |-> fields.source, destination |-> fields.destination,
            amount |-> fields.amount, fee |-> fields.fee,
            parent |-> fields.parent, salt |-> salt]))

\* Serialize of CurrencyTransactionValue: salt is a String, written as a JSON string
serialize_value(value) ==
    [source |-> value.source, destination |-> value.destination,
     amount |-> value.amount, fee |-> value.fee,
     parent |-> value.parent, salt |-> JStr(value.salt)]

----------------------------------------------------------------------------
(* Calls of the functions that keep no state                                *)

\* values of one random byte
ByteSamples == {0, 128, 255}

GenerateSaltCall ==
    \E random_bytes \in [1..6 -> ByteSamples] :
        /\ call.op = "none"
        /\ call' = [op |-> "generate_salt", random_bytes |-> random_bytes,
                    result |-> generate_salt(random_bytes)]
        /\ UNCHANGED <<tx, pristine, obj, cli>>

\* characters written over an address: outside Base58, a parity digit out of
\* range, valid ones, and one outside ASCII
EditChars == {"0", "O", "I", "l", "9", "8", "z", " ", "é"}

\* an address with one character replaced, two characters replaced by one,
\* one character appended, or the last one dropped
AddressEdits(a) ==
    {SubSeq(a, 1, i - 1) \o c \o SubSeq(a, i + 1, Len(a)) : i \in 1..Len(a), c \in EditChars}
    \cup {SubSeq(a, 1, i - 1) \o c \o SubSeq(a, i + 2, Len(a)) : i \in 1..(Len(a) - 1), c \in EditChars}
    \cup {a \o c : c \in EditChars}
    \cup {SubSeq(a, 1, Len(a) - 1)}

AddressSamples ==
    {"", "DAG", "invalid"} \cup UNION {{a} \cup AddressEdits(a) : a \in {Address1, Address2}}

IsValidDagAddressCall ==
    \E address \in AddressSamples :
        /\ call.op = "none"
        /\ call' = [op |-> "is_valid_dag_address", address |-> address,
                    result |-> is_valid_dag_address(address),
                    panics |-> is_valid_dag_address_panics(address)]
        /\ UNCHANGED <<tx, pristine, obj, cli>>

\* get_address of a key pair's public key, with and without the 04 prefix
GetAddressCall ==
    \E private_key \in DOMAIN PublicKeyOf :
        \E public_key \in {get_public_key_hex(private_key).val, get_public_key_id(private_key).val} :
            /\ call.op = "none"
            /\ call' = [op |-> "get_address", private_key |-> private_key,
                        public_key |-> public_key, result |-> get_address(public_key)]
            /\ UNCHANGED <<tx, pristine, obj, cli>>

\* get_address of a text that is no public key: the empty text, texts that
\* are not hex (of 128 characters too), hex of odd length
PublicKeyTextSamples ==
    {"", "invalid", "abc", "0x04", "é", Repeat("z", 128), Repeat("g", 130)}

GetAddressOfTextCall ==
    \E public_key \in PublicKeyTextSamples :
        /\ call.op = "none"
        /\ call' = [op |-> "get_address_of_text", public_key |-> public_key,
                    result |-> get_address(public_key)]
        /\ UNCHANGED <<tx, pristine, obj, cli>>

ToBytesCall ==
    \E data \in ValueSamples \cup {JStr(""), JArr(<<>>)}, is_data_update \in BOOLEAN :
        /\ call.op = "none"
        /\ call' = [op |-> "to_bytes", data |-> data, is_data_update |-> is_data_update,
                    result |-> to_bytes(data, is_data_update)]
        /\ UNCHANGED <<tx, pristine, obj, cli>>

\* lengths on both sides of each step of utf8_length
LengthSamples ==
    {1, 2, 2^6 - 1, 2^6, 2^7, 2^13 - 1, 2^13, 2^14 + 5, 2^20 - 1, 2^20, 2^21 + 2^13 + 7,
     2^27 - 1, 2^27, 2^30 + 2^20 + 2^6 + 1}

Utf8LengthCall ==
    \E value \in LengthSamples :
        /\ call.op = "none"
        /\ call' = [op |-> "utf8_length", value |-> value, result |-> utf8_length(value)]
        /\ UNCHANGED <<tx, pristine, obj, cli>>

KryoSerializeCall ==
    \E n \in {0, 1, 2^6 - 2, 2^6 - 1, 2^6}, set_references \in BOOLEAN :
        \E msg \in {Repeat("a", n)} :
            /\ call.op = "none"
            /\ call' = [op |-> "kryo_serialize", msg |-> msg, set_references |-> set_references,
                        result |-> kryo_serialize(msg, set_references)]
            /\ UNCHANGED <<tx, pristine, obj, cli>>

\* transaction values with any field contents; the salts all parse
ValueFieldSamples ==
    [source : {Address1},
     destination : {Address2, "1"},
     amount : {I64_MIN, -1, 0, 1, I64_MAX},
     fee : {-1, 0, I64_MAX},
     parent : [hash : {ParentHashA, ""}, ordinal : {-1, 0, I64_MAX}],
     salt : {"0", "007", "+5", "255", "8725724278030336", "9007199254740991",
             "18446744073709551616"}]

\* two values that are no output of create: the source is no address
UnvalidatedValueSamples ==
    {[source |-> "0", destination |-> "abcdefgh1x", amount |-> 1, fee |-> 0,
      parent |-> [hash |-> "", ordinal |-> 0], salt |-> "255"],
     [source |-> "10abcdefgh", destination |-> "x", amount |-> 1, fee |-> 0,
      parent |-> [hash |-> "", ordinal |-> 0], salt |-> "255"]}

EncodeCall ==
    \E value \in ValueFieldSamples \cup UnvalidatedValueSamples :
        \E transaction \in {[value |-> value, proofs |-> <<>>]} :
            /\ call.op = "none"
            /\ call' = [op |-> "encode_currency_transaction", transaction |-> transaction,
                        result |-> encode_currency_transaction(transaction)]
            /\ UNCHANGED <<tx, pristine, obj, cli>>

\* JSON values met under "salt": strings, integers inside and outside i64,
\* and a value that is neither
SaltJsonSamples ==
    {JStr(s) : s \in {"", "5", "007", "-5", "abc", "8725724278030336", "18446744073709551616"}}
    \cup {JNum(n) : n \in (I64_MIN - 1)..(I64_MAX + 1)}
    \cup {JArr(<<>>)}

DeserializeCall ==
    \E salt \in SaltJsonSamples, amount \in {1, I64_MAX}, fee \in {0, 1} :
        \E fields \in {[source |-> Address1, destination |-> Address2, amount |-> amount,
                         fee |-> fee, parent |-> CreatorRef, salt |-> salt]} :
            /\ call.op = "none"
            /\ call' = [op |-> "deserialize", fields |-> fields,
                        result |-> deserialize_value(fields)]
            /\ UNCHANGED <<tx, pristine, obj, cli>>

\* every order of the elements of a sequence
Orders(seq) == {[i \in 1..Len(seq) |-> seq[f[i]]] : f \in Permutations(1..Len(seq))}

\* one value tree written with its members, at both depths, and the items of
\* its array in every order
TreeSamples ==
    {JObj(outer) :
        outer \in UNION {Orders(<<Member("b", JObj(inner)), Member("a", JArr(items)),
                                  Member("B", JStr("s"))>>) :
                            inner \in Orders(<<Member("x", JNum(1)), Member("xa", JNum(2)),
                                               Member("X", JNum(3))>>),
                            items \in Orders(<<JNum(1), JNum(2)>>)}}

CanonicalizeCall ==
    \E data \in TreeSamples :
        /\ call.op = "none"
        /\ call' = [op |-> "canonicalize", data |-> data, result |-> canonicalize(data)]
        /\ UNCHANGED <<tx, pristine, obj, cli>>

NextFunctions ==
    \/ CanonicalizeCall
    \/ EncodeCall
    \/ DeserializeCall
    \/ GenerateSaltCall
    \/ CreateCall
    \/ GetAddressCall
    \/ GetAddressOfTextCall
    \/ IsValidDagAddressCall
    \/ ToBytesCall
    \/ Utf8LengthCall
    \/ KryoSerializeCall

SpecFunctions == Init /\ [][NextFunctions]_vars

----------------------------------------------------------------------------
(* e2e/rust/src/main.rs: the command-line program that sends one transaction *)

\* a variant that leaves with status 0
process_exit_with_success(state, code, step) ==
    [state EXCEPT !.pc = "exited", !.exit = 0, !.failed = step]

\* process::exit(code) at the step named
process_exit(state, code, step) ==
    [state EXCEPT !.pc = "exited", !.exit = code, !.failed = step]

\* a file or network operation made by the program, with its outcome
Event(state, op, ok) == [state EXCEPT !.events = @ \o <<[op |-> op, ok |-> ok]>>]

\* contents of config.json
ConfigSamples ==
    [private_key : {"YOUR_64_CHAR_HEX_PRIVATE_KEY_HERE", "abc", Repeat("z", 64), Repeat("0", 64),
                    PrivateKey1},
     destination : {Address1, Address2, "invalid"},
     amount : {F64(0), F64(TicksPerUnit)},
     fee : {F64(-1), F64(0), F64(TicksPerUnit)}]

\* main up to the first request of send_transaction: the arguments, the
\* config file, the checks of the private key, the key pair, the client
CliMain ==
    /\ cli.pc = "main"
    /\ \E generate_keypair \in BOOLEAN, read_ok \in BOOLEAN, parse_ok \in BOOLEAN,
          client_ok \in BOOLEAN, config \in ConfigSamples :
           cli' = IF generate_keypair
                  THEN [cli EXCEPT !.pc = "exited", !.exit = 0, !.generate_keypair = TRUE]
                  ELSE IF ~read_ok THEN process_exit(Event(cli, "read_config", FALSE), 1, "config_read")
                  ELSE Let(Event(cli, "read_config", TRUE), LAMBDA loaded :
                       IF ~parse_ok THEN process_exit(loaded, 1, "config_parse")
                       ELSE Let([loaded EXCEPT !.config = <<config>>], LAMBDA state :
                            IF config.private_key = "YOUR_64_CHAR_HEX_PRIVATE_KEY_HERE"
                            THEN process_exit(state, 1, "private_key")
                            ELSE IF Len(config.private_key) # 64
                            THEN process_exit(state, 1, "private_key")
                            ELSE IF ~key_pair_from_private_key(config.private_key).ok
                            THEN process_exit(state, 1, "key_derivation")
                            ELSE IF ~client_ok THEN process_exit(state, 1, "client")
                            ELSE [state EXCEPT !.pc = "check_health"]))
    /\ UNCHANGED <<tx, pristine, obj, call>>

\* a variant that goes on when the node does not answer
CliCheckHealth_ignoring_answer ==
    /\ cli.pc = "check_health"
    /\ \E healthy \in BOOLEAN :
           cli' = [Event(cli, "check_health", healthy) EXCEPT !.pc = "get_last_reference"]
    /\ UNCHANGED <<tx, pristine, obj, call>>

\* client.check_health().await
CliCheckHealth ==
    /\ cli.pc = "check_health"
    /\ \E healthy \in BOOLEAN :
           cli' = Let(Event(cli, "check_health", healthy), LAMBDA state :
                      IF ~healthy THEN process_exit(state, 1, "health")
                      ELSE [state EXCEPT !.pc = "get_last_reference"])
    /\ UNCHANGED <<tx, pristine, obj, call>>

\* client.get_last_reference(source_address).await, then the transaction is
\* created and verified
CliGetLastReference ==
    /\ cli.pc = "get_last_reference"
    /\ \E fetched \in BOOLEAN, last_ref \in RefSamples, random_bytes \in RandomSamples :
           cli' = Let(Event(cli, "get_last_reference", fetched), LAMBDA state :
                      IF ~fetched THEN process_exit(state, 1, "last_reference")
                      ELSE Let(create_currency_transaction(
                                   [destination |-> cli.config[1].destination,
                                    amount |-> cli.config[1].amount, fee |-> cli.config[1].fee],
                                   cli.config[1].private_key, last_ref, random_bytes),
                               LAMBDA created :
                           IF ~created.ok
                           THEN process_exit([state EXCEPT !.last_ref = <<last_ref>>], 1, "create")
                           ELSE Let(verify_currency_transaction(created.val), LAMBDA result :
                                Let([state EXCEPT !.last_ref = <<last_ref>>,
                                                  !.created = <<created.val>>,
                                                  !.verified = result.ok /\ result.val.is_valid],
                                    LAMBDA next :
                                    IF ~next.verified THEN process_exit(next, 1, "verify")
                                    ELSE [next EXCEPT !.pc = "post_transaction"]))))
    /\ UNCHANGED <<tx, pristine, obj, call>>

\* client.post_transaction(&tx).await
CliPostTransaction ==
    /\ cli.pc = "post_transaction"
    /\ \E posted \in BOOLEAN :
           cli' = Let(Event(cli, "post_transaction", posted), LAMBDA state :
                      IF ~posted THEN process_exit(state, 1, "submit")
                      ELSE [state EXCEPT !.pc = "get_pending_transaction"])
    /\ UNCHANGED <<tx, pristine, obj, call>>

\* client.get_pending_transaction(&response.hash).await: Ok(Some), Ok(None)
\* or Err, each printed; then main returns
CliGetPendingTransaction ==
    /\ cli.pc = "get_pending_transaction"
    /\ \E outcome \in {"some", "none", "err"} :
           cli' = Let(Event(cli, "get_pending_transaction", outcome # "err"), LAMBDA state :
                      [state EXCEPT !.pc = "exited", !.exit = 0,
                                    !.failed = IF outcome = "err" THEN "status" ELSE "none"])
    /\ UNCHANGED <<tx, pristine, obj, call>>

NextCli ==
    \/ CliMain
    \/ CliCheckHealth
    \/ CliGetLastReference
    \/ CliPostTransaction
    \/ CliGetPendingTransaction

SpecCli == Init /\ [][NextCli]_vars

----------------------------------------------------------------------------
(* Claims                                                                   *)

\* C1: chain integrity of create_currency_transaction_batch.  A batch call
\* that succeeds on N transfers with starting reference R returns N
\* transactions in transfer order, the first has parent R, and the i-th
\* (counting from 0) has parent.hash = hash of the one before it and
\* parent.ordinal = R.ordinal + i.
C1_ChainIntegrity ==
    (call.op = "batch" /\ call.result.ok) =>
        LET txs == call.result.val
            N == Len(call.transfers)
            R == call.last_ref
        IN  /\ Len(txs) = N
            /\ \A i \in 1..N :
                /\ txs[i].value.destination = call.transfers[i].destination
                /\ txs[i].value.amount = token_to_units(call.transfers[i].amount)
                /\ txs[i].value.fee = token_to_units(call.transfers[i].fee)
            /\ N >= 1 => txs[1].value.parent = R
            /\ \A i \in 2..N :
                /\ txs[i].value.parent.hash = hash_currency_transaction(txs[i - 1]).val
                /\ txs[i].value.parent.ordinal = R.ordinal + (i - 1)

\* C2: sign/verify law of create_currency_transaction.  For a valid key K,
\* a valid destination other than the address of K, an amount of at least
\* 1e-8 token, a fee of at least 0 and any parent reference R, the call
\* returns an envelope with parent R, source address(K) and exactly one
\* proof whose id is the public key of K without its 04 prefix, and
\* verify_currency_transaction reports it valid with 1 valid, 0 invalid proofs.
C2_Precondition ==
    /\ call.op = "create"
    /\ call.private_key \in DOMAIN PublicKeyOf
    /\ is_valid_dag_address(call.params.destination)
    /\ call.params.destination # get_address(PublicKeyOf[call.private_key])
    /\ ~call.params.amount.nan /\ call.params.amount.ticks >= TicksPerUnit
    /\ ~call.params.fee.nan /\ call.params.fee.ticks >= 0

C2_SignVerifyLaw ==
    C2_Precondition =>
        /\ call.result.ok
        /\ LET envelope == call.result.val
           IN  /\ envelope.value.parent = call.last_ref
               /\ envelope.value.source = get_address(PublicKeyOf[call.private_key])
               /\ Len(envelope.proofs) = 1
               /\ "04" \o envelope.proofs[1].id = PublicKeyOf[call.private_key]
               /\ Let(verify_currency_transaction(envelope), LAMBDA verified :
                      /\ verified.ok
                      /\ verified.val.is_valid
                      /\ Len(verified.val.valid_proofs) = 1
                      /\ Len(verified.val.invalid_proofs) = 0)

C2_Witness ==
    /\ C2_Precondition
    /\ call.result.ok
    /\ call.last_ref.ordinal = I64_MAX
    /\ call.params.fee.ticks > 0
    /\ call.result.val.value.amount = I64_MAX

\* C3: sign_currency_transaction(tx, K) on success returns a new envelope
\* with the value of tx and the proofs of tx, in their order, followed by one
\* new proof for K; tx itself is unchanged; and after any sequence of such
\* calls on a created transaction every proof verifies.
C3_SignAppends ==
    /\ (call.op = "sign" /\ call.result.ok) =>
        LET input == call.input
            ret == call.result.val.ret
            n == Len(input.proofs)
            hash == hash_currency_transaction(input)
        IN  /\ ret.value = input.value
            /\ Len(ret.proofs) = n + 1
            /\ SubSeq(ret.proofs, 1, n) = input.proofs
            /\ "04" \o ret.proofs[n + 1].id = PublicKeyOf[call.private_key]
            /\ verify_hash_internal(PublicKeyOf[call.private_key], hash.val,
                                    ret.proofs[n + 1].signature)
            /\ call.result.val.arg = input
            /\ tx = <<ret>>
    /\ (tx # <<>> /\ pristine) =>
        Let(verify_currency_transaction(tx[1]), LAMBDA verified :
            /\ verified.ok
            /\ verified.val.invalid_proofs = <<>>
            /\ verified.val.valid_proofs = tx[1].proofs
            /\ verified.val.is_valid)

C3_Witness ==
    /\ call.op = "sign"
    /\ call.result.ok
    /\ pristine
    /\ Len(tx[1].proofs) = MaxProofs
    /\ tx[1].proofs[2].id # tx[1].proofs[1].id

\* C4: for every envelope, with any number of proofs, the result of
\* verify_currency_transaction has is_valid exactly when invalid_proofs is
\* empty and valid_proofs is not; an envelope without proofs is not valid.
C4_IsValidIff ==
    (call.op = "verify" /\ call.result.ok) =>
        LET r == call.result.val
        IN  /\ r.is_valid <=> (r.invalid_proofs = <<>> /\ r.valid_proofs # <<>>)
            /\ call.input.proofs = <<>> => ~r.is_valid

C4_Witness ==
    /\ call.op = "verify"
    /\ call.result.ok
    /\ call.input.proofs = <<>>
    /\ ~call.result.val.is_valid

\* C5: tamper invalidation of the value.  When the value of an envelope
\* whose proofs all verify is replaced by one with other signing-input bytes
\* and the proofs are kept, verification puts every proof in invalid_proofs,
\* leaves valid_proofs empty and returns is_valid = false.
C5_Precondition ==
    /\ call.op = "set_value"
    /\ verify_currency_transaction(call.input).val.invalid_proofs = <<>>
    /\ tx[1].proofs = call.input.proofs
    /\ tx[1].value # call.input.value
    /\ Let(encode_transaction(call.input), LAMBDA before :
       Let(encode_transaction(tx[1]), LAMBDA after :
           /\ before.ok
           /\ after.ok
           /\ kryo_serialize(after.val, FALSE) # kryo_serialize(before.val, FALSE)))

C5_ValueTamper ==
    C5_Precondition =>
        Let(verify_currency_transaction(tx[1]), LAMBDA verified :
            /\ verified.ok
            /\ verified.val.invalid_proofs = tx[1].proofs
            /\ verified.val.valid_proofs = <<>>
            /\ ~verified.val.is_valid)

C5_Witness ==
    /\ C5_Precondition
    /\ Len(tx[1].proofs) = 2
    /\ call.edit = "amount"

\* C6: per-proof independence.  valid_proofs and invalid_proofs split the
\* proofs of the envelope, each proof in one list and in its order; a change
\* of one proof changes the class of that proof only; an envelope with one
\* good and one corrupted proof gives 1 valid, 1 invalid and is_valid = false.
RECURSIVE Chosen(_, _, _)
Chosen(proofs, class, keep) ==
    IF proofs = <<>> THEN <<>>
    ELSE (IF class[1] = keep THEN <<Head(proofs)>> ELSE <<>>)
         \o Chosen(Tail(proofs), [i \in 1..(Len(proofs) - 1) |-> class[i + 1]], keep)

SplitBy(result, proofs, class) ==
    /\ result.valid_proofs = Chosen(proofs, class, TRUE)
    /\ result.invalid_proofs = Chosen(proofs, class, FALSE)

C6_Corrupting == ProofEdits \ {"high_s"}

C6_ProofIndependence ==
    /\ (call.op = "verify" /\ call.result.ok) =>
        LET proofs == call.input.proofs
        IN  /\ Len(call.result.val.valid_proofs) + Len(call.result.val.invalid_proofs)
                 = Len(proofs)
            /\ \E class \in [1..Len(proofs) -> BOOLEAN] :
                    SplitBy(call.result.val, proofs, class)
    /\ call.op = "set_proof" =>
        Let(verify_currency_transaction(call.input), LAMBDA before :
        Let(verify_currency_transaction(tx[1]), LAMBDA after :
            LET n == Len(tx[1].proofs)
            IN  /\ before.ok /\ after.ok
                /\ \E was \in [1..n -> BOOLEAN], is \in [1..n -> BOOLEAN] :
                    /\ SplitBy(before.val, call.input.proofs, was)
                    /\ SplitBy(after.val, tx[1].proofs, is)
                    /\ \A j \in 1..n : j # call.index => is[j] = was[j]
                /\ (n = 2 /\ call.edit \in C6_Corrupting) =>
                    /\ Len(after.val.valid_proofs) = 1
                    /\ Len(after.val.invalid_proofs) = 1
                    /\ after.val.invalid_proofs = <<tx[1].proofs[call.index]>>
                    /\ ~after.val.is_valid))

C6_Witness ==
    /\ call.op = "set_proof"
    /\ Len(tx[1].proofs) = 3
    /\ call.index = 1
    /\ call.edit = "other_signer"
    /\ tx[1].proofs[2].id # tx[1].proofs[3].id
    /\ Len(verify_currency_transaction(tx[1]).val.valid_proofs) = 2

\* C7: verification is a predicate.  verify_currency_transaction returns no
\* error because of a malformed proof: a proof whose id or signature is not
\* hex, whose id is no curve point or whose signature is not DER is put in
\* invalid_proofs, verify_hash_internal being false for it.
C7_Malforming == {"text_signature", "not_der", "text_id", "not_point"}

C7_VerifyIsPredicate ==
    tx # <<>> =>
        Let(hash_currency_transaction(tx[1]), LAMBDA hash :
        Let(verify_currency_transaction(tx[1]), LAMBDA verified :
            /\ hash.ok => verified.ok
            /\ (call.op = "set_proof" /\ call.edit \in C7_Malforming) =>
                LET proof == tx[1].proofs[call.index]
                    n == Len(tx[1].proofs)
                IN  /\ verified.ok
                    /\ ~verify_hash_internal("04" \o proof.id, hash.val, proof.signature)
                    /\ verified.val.invalid_proofs = <<proof>>
                    /\ Len(verified.val.valid_proofs) = n - 1
                    /\ ~verified.val.is_valid))

C7_Witness ==
    /\ call.op = "set_proof"
    /\ call.edit = "text_id"
    /\ Len(tx[1].proofs) = 2
    /\ call.index = 2
    /\ verify_currency_transaction(tx[1]).ok

\* C8: mode separation.  For a key K and a value V, a proof made in the
\* DataUpdate mode (sign_data_update, create_signed_object(.., true))
\* verifies with is_data_update = true and is invalid with false, a proof made
\* in the regular mode verifies with false and is invalid with true, and the
\* proofs of the two modes carry the same id.
C8_ModeSeparation ==
    /\ (call.op = "sign_value" /\ call.result.ok) =>
        LET proof == call.result.val
        IN  /\ Let(verify_signature(call.data, proof, call.is_data_update), LAMBDA own :
                   own.ok /\ own.val)
            /\ Let(verify_signature(call.data, proof, ~call.is_data_update), LAMBDA other :
                   other.ok /\ ~other.val)
            /\ Let(sign(call.data, call.private_key), LAMBDA regular :
               Let(sign_data_update(call.data, call.private_key), LAMBDA update :
                   /\ regular.val.id = proof.id
                   /\ update.val.id = proof.id
                   /\ regular.val.signature # update.val.signature))
    /\ (call.op = "create_signed" /\ call.result.ok) =>
        Let(verify(call.result.val, call.is_data_update), LAMBDA own :
        Let(verify(call.result.val, ~call.is_data_update), LAMBDA other :
            /\ own.is_valid
            /\ own.valid_proofs = call.result.val.proofs
            /\ ~other.is_valid
            /\ other.valid_proofs = <<>>
            /\ other.invalid_proofs = call.result.val.proofs))

C8_Witness ==
    /\ call.op = "sign_value"
    /\ call.result.ok
    /\ call.is_data_update
    /\ call.private_key = PrivateKey2
    /\ verify_signature(call.data, call.result.val, TRUE).val
    /\ ~verify_signature(call.data, call.result.val, FALSE).val

\* C9: batch_sign(V, keys, F) fails with NoPrivateKeys exactly when keys is
\* empty; for a non-empty list of valid keys it returns an envelope over V
\* with one proof per key, in key order, and verify(envelope, F) reports all
\* of them valid.
C9_BatchSign ==
    call.op = "batch_sign" =>
        LET keys == call.private_keys
            result == call.result
        IN  /\ (~result.ok /\ result.err = "NoPrivateKeys") <=> keys = <<>>
            /\ (keys # <<>> /\ \A i \in 1..Len(keys) : keys[i] \in DOMAIN PublicKeyOf) =>
                /\ result.ok
                /\ result.val.value = call.value
                /\ Len(result.val.proofs) = Len(keys)
                /\ \A i \in 1..Len(keys) :
                    "04" \o result.val.proofs[i].id = PublicKeyOf[keys[i]]
                /\ Let(verify(result.val, call.is_data_update), LAMBDA verified :
                       /\ verified.is_valid
                       /\ verified.valid_proofs = result.val.proofs
                       /\ verified.invalid_proofs = <<>>)

C9_Witness ==
    /\ call.op = "batch_sign"
    /\ call.result.ok
    /\ call.private_keys = <<PrivateKey3, PrivateKey1, PrivateKey2>>
    /\ call.is_data_update
    /\ Len(call.result.val.proofs) = 3

\* C10: from create_signed_object(V, K1, F), every sequence of add_signature
\* calls with distinct keys K2..Kn and the same flag F gives an envelope with
\* the value V and n proofs in the order of the calls, and verify(envelope, F)
\* reports is_valid = true with n valid proofs.
C10_Precondition ==
    /\ obj # <<>>
    /\ \A i \in 1..Len(obj[1].flags) : obj[1].flags[i] = obj[1].flags[1]
    /\ \A i, j \in 1..Len(obj[1].keys) : i # j => obj[1].keys[i] # obj[1].keys[j]

C10_AddSignature ==
    C10_Precondition =>
        LET signed == obj[1].signed
            n == Len(obj[1].keys)
        IN  /\ signed.value = obj[1].value
            /\ Len(signed.proofs) = n
            /\ \A i \in 1..n : "04" \o signed.proofs[i].id = PublicKeyOf[obj[1].keys[i]]
            /\ Let(verify(signed, obj[1].flags[1]), LAMBDA verified :
                   /\ verified.is_valid
                   /\ verified.valid_proofs = signed.proofs
                   /\ Len(verified.valid_proofs) = n
                   /\ verified.invalid_proofs = <<>>)

C10_Witness ==
    /\ C10_Precondition
    /\ call.op = "add_signature"
    /\ call.result.ok
    /\ obj[1].keys = <<PrivateKey2, PrivateKey3, PrivateKey1>>
    /\ obj[1].flags[1]

\* C11: amount boundary.  create_currency_transaction rejects with
\* InvalidAmount every amount whose floor(amount * 10^8) is below 1 (zero and
\* negatives included), accepts the amount 1e-8 and stores value.amount = 1,
\* and the stored amount is the floor of amount * 10^8, never more.
C11_Reached ==
    /\ call.op = "create"
    /\ call.private_key \in DOMAIN PublicKeyOf
    /\ is_valid_dag_address(call.params.destination)
    /\ call.params.destination # get_address(PublicKeyOf[call.private_key])
    /\ ~call.params.amount.nan

C12_ValueInvariants ==
    call.op = "create" =>
        LET value == call.result.val.value
            destination == call.params.destination
            known == call.private_key \in DOMAIN PublicKeyOf
        IN  /\ call.result.ok =>
                /\ is_valid_dag_address(value.source)
                /\ is_valid_dag_address(value.destination)
                /\ value.source # value.destination
                /\ value.amount >= 1
                /\ value.fee >= 0
                /\ tx = <<call.result.val>>
            /\ (known /\ ~is_valid_dag_address(destination)) =>
                (~call.result.ok /\ call.result.err = "InvalidAddress")
            /\ (known /\ destination = get_address(PublicKeyOf[call.private_key])) =>
                (~call.result.ok /\ call.result.err = "InvalidAddress")
            /\ (C11_Reached /\ call.params.amount.ticks >= TicksPerUnit
                    /\ ~call.params.fee.nan /\ call.params.fee.ticks < 0) =>
                (~call.result.ok /\ call.result.err = "InvalidAmount")
            /\ ~call.result.ok => (call.result.val = NoValue /\ tx = <<>>)

C12_Witness ==
    /\ call.op = "create"
    /\ call.private_key = PrivateKey2
    /\ call.params.destination = Address2
    /\ call.params.fee.ticks > 0
    /\ call.result.err = "InvalidAddress"
    /\ tx = <<>>

\* C13: salt range.  Every salt of generate_salt, and so the salt of every
\* created transaction, is the decimal string of an integer s with
\* 2^53 - 2^48 <= s <= 2^53 - 1, equal to MIN_SALT + r for the 48-bit number r
\* of the random bytes, below 2^64.
C13_InRange(salt, random_bytes) ==
    /\ salt # ""
    /\ AllCharsIn(salt, DecChars)
    /\ CharAt(salt, 1) # "0"
    /\ Let(BigFromDec(salt), LAMBDA s :
           /\ ~BigLess(s, BigFromDec("8725724278030336"))
           /\ ~BigLess(BigFromDec("9007199254740991"), s)
           /\ BigLess(s, BigFromDec("18446744073709551616"))
           /\ Let(BigSub(s, BigFromDec("8725724278030336")), LAMBDA r :
                  /\ BigLess(r, BigFromDec("281474976710656"))
                  /\ r = BigFromBytes(random_bytes)))

C13_SaltRange ==
    /\ call.op = "generate_salt" => C13_InRange(call.result, call.random_bytes)
    /\ (call.op = "create" /\ call.result.ok) =>
            C13_InRange(call.result.val.value.salt, call.random_bytes)

C13_Witness ==
    /\ call.op = "generate_salt"
    /\ call.random_bytes = <<255, 255, 255, 255, 255, 255>>
    /\ call.result = "9007199254740991"

\* C14: address well-formedness.  get_address of a key pair's uncompressed
\* public key gives the same result with and without the 04 prefix; the result
\* has 40 characters: DAG, a parity digit 0..8, 36 Base58 characters; the
\* parity digit is the sum of the decimal digits among the 36 modulo 9; the
\* result passes is_valid_dag_address.
C14_Base58 ==
    CharsOf("0123456789ABCDEFGHIJKLMNOPQRSTUVWXYZabcdefghijklmnopqrstuvwxyz") \ {"0", "O", "I", "l"}

C14_AddressWellFormed ==
    call.op = "get_address" =>
        Let(call.result, LAMBDA a :
            /\ a = get_address(get_public_key_hex(call.private_key).val)
            /\ a = get_address(get_public_key_id(call.private_key).val)
            /\ Len(a) = 40
            /\ SubSeq(a, 1, 3) = "DAG"
            /\ CharAt(a, 4) \in CharsOf("012345678")
            /\ \A i \in 5..40 : CharAt(a, i) \in C14_Base58
            /\ ToString(DigitSum(SubSeq(a, 5, 40)) % 9) = CharAt(a, 4)
            /\ is_valid_dag_address(a)
            /\ ~is_valid_dag_address_panics(a))

C14_Witness ==
    /\ call.op = "get_address"
    /\ call.private_key = PrivateKey1
    /\ Len(call.public_key) = 128
    /\ call.result = "DAG6rkDwd7V6uboeH9fajUnue7eSsMKt4w9GiXjy"

\* C15: is_valid_dag_address(a) is true exactly when a has 40 characters,
\* starts with DAG, has a digit 0..8 as fourth character and 36 Base58
\* characters after it; on every other string, the empty one, "DAG" and
\* strings with characters outside ASCII included, it returns false and does
\* not fail.
C15_ValidIff ==
    call.op = "is_valid_dag_address" =>
        Let(call.address, LAMBDA a :
            /\ ~call.panics
            /\ call.result <=>
                   /\ Len(a) = 40
                   /\ SubSeq(a, 1, 3) = "DAG"
                   /\ CharAt(a, 4) \in CharsOf("012345678")
                   /\ \A i \in 5..40 : CharAt(a, i) \in C14_Base58)

C15_Witness ==
    /\ call.op = "is_valid_dag_address"
    /\ Len(call.address) = 39
    /\ Utf8Len(call.address) = 40
    /\ SubSeq(call.address, 1, 4) = "DAG6"
    /\ ~call.result
    /\ ~call.panics

\* C16: DataUpdate framing.  to_bytes(V, true) is the 28-byte prefix, 0x19
\* and "Constellation Signed Data:" and a line feed, followed by
\* to_bytes(V, false); to_bytes(V, false) is the canonical JSON of V; the two
\* differ.
C16_Prefix ==
    <<25, 67, 111, 110, 115, 116, 101, 108, 108, 97, 116, 105, 111, 110, 32,
      83, 105, 103, 110, 101, 100, 32, 68, 97, 116, 97, 58, 10>>

C16_DataUpdateFraming ==
    call.op = "to_bytes" =>
        Let(to_bytes(call.data, FALSE), LAMBDA regular :
            /\ call.result.ok
            /\ regular = canonicalize_bytes(call.data)
            /\ Len(C16_Prefix) = 28
            /\ call.result.val = (IF call.is_data_update THEN C16_Prefix \o regular.val
                                  ELSE regular.val)
            /\ to_bytes(call.data, TRUE) # regular)

\* the bytes of {"id":"test"} behind the prefix
C16_Witness ==
    /\ call.op = "to_bytes"
    /\ call.is_data_update
    /\ call.result.ok
    /\ call.result.val = C16_Prefix
           \o <<123, 34, 105, 100, 34, 58, 34, 116, 101, 115, 116, 34, 125>>

\* C17: Kryo framing.  kryo_serialize(msg, set_references) is 0x03, then 0x01
\* only if set_references, then varint(len + 1), then the bytes of msg.
\* varint(v) has 1 byte below 2^6, 2 below 2^13, 3 below 2^20, 4 below 2^27
\* and 5 from there on: the first byte holds the low 6 bits of v with bit 7
\* set and bit 6 set exactly when more bytes follow, every further byte the
\* next 7 bits with bit 7 set except on the last.  The hash of a created
\* transaction is taken over the framing without the references byte.
C17_IsVarint(bytes, v) ==
    /\ Len(bytes) = (IF v < 2^6 THEN 1 ELSE IF v < 2^13 THEN 2 ELSE IF v < 2^20 THEN 3
                     ELSE IF v < 2^27 THEN 4 ELSE 5)
    /\ bytes[1] = 128 + (IF Len(bytes) > 1 THEN 64 ELSE 0) + (v % 64)
    /\ \A i \in 2..Len(bytes) :
           bytes[i] = (IF i < Len(bytes) THEN 128 ELSE 0) + ((v \div 2^(7 * i - 8)) % 128)

C17_KryoFraming ==
    /\ call.op = "utf8_length" => C17_IsVarint(call.result, call.value)
    /\ call.op = "kryo_serialize" =>
           Let(IF call.set_references THEN 2 ELSE 1, LAMBDA head :
           Let(Len(call.result) - Len(call.msg), LAMBDA body :
               /\ SubSeq(call.result, 1, head) = (IF call.set_references THEN <<3, 1>> ELSE <<3>>)
               /\ C17_IsVarint(SubSeq(call.result, head + 1, body), Len(call.msg) + 1)
               /\ SubSeq(call.result, body + 1, Len(call.result)) = AsBytes(call.msg)))
    /\ (call.op = "create" /\ call.result.ok) =>
           Let(encode_transaction(call.result.val).val, LAMBDA encoded :
               /\ call.result.val.proofs # <<>>
               /\ hash_currency_transaction(call.result.val).val
                      = Sha256Hex(<<3>> \o utf8_length(Len(encoded) + 1) \o AsBytes(encoded))
               /\ verify_currency_transaction(call.result.val).val.is_valid)

C17_Witness ==
    /\ call.op = "kryo_serialize"
    /\ ~call.set_references
    /\ Len(call.msg) = 2^6 - 1
    /\ SubSeq(call.result, 1, 4) = <<3, 192, 1, 97>>

\* C18: length-prefixed encoding.  encode_currency_transaction(tx) is "2"
\* followed, in this order, by the decimal length and the text of: source,
\* destination, the lowercase hex of amount, parent.hash, the decimal
\* parent.ordinal, the decimal fee, the lowercase hex of the salt read as an
\* unsigned integer.  The hex texts have no leading zero and the lengths no
\* padding.
RECURSIVE C18_HexValue(_)
C18_HexValue(h) ==
    IF h = "" THEN <<>>
    ELSE BigMulAdd(C18_HexValue(SubSeq(h, 1, Len(h) - 1)), 16,
                   IndexIn(CharAt(h, Len(h)), "0123456789abcdef") - 1)

\* x is a decimal length followed by that many hex digits of the number n
C18_LenPrefixedHex(x, n) ==
    \E k \in 1..2 :
        Let(SubSeq(x, k + 1, Len(x)), LAMBDA h :
            /\ SubSeq(x, 1, k) = ToString(Len(h))
            /\ h # ""
            /\ AllCharsIn(h, CharsOf("0123456789abcdef"))
            /\ (CharAt(h, 1) = "0" => h = "0")
            /\ C18_HexValue(h) = n)

C18_Encoded(e, v) ==
    Let("2" \o ToString(Len(v.source)) \o v.source
            \o ToString(Len(v.destination)) \o v.destination, LAMBDA front :
    Let(ToString(Len(v.parent.hash)) \o v.parent.hash
            \o ToString(Len(ToString(v.parent.ordinal))) \o ToString(v.parent.ordinal)
            \o ToString(Len(ToString(v.fee))) \o ToString(v.fee), LAMBDA middle :
        \E i \in (Len(front) + 2)..(Len(e) - Len(middle) - 2) :
            /\ SubSeq(e, 1, Len(front)) = front
            /\ C18_LenPrefixedHex(SubSeq(e, Len(front) + 1, i),
                   BigFromDec(ToString(IF v.amount >= 0 THEN v.amount ELSE 2^IntBits + v.amount)))
            /\ SubSeq(e, i + 1, i + Len(middle)) = middle
            /\ C18_LenPrefixedHex(SubSeq(e, i + Len(middle) + 1, Len(e)),
                   ParseBigUint(v.salt).val)))

C18_EncodingOrder ==
    call.op = "encode_currency_transaction" =>
        /\ call.result.ok
        /\ C18_Encoded(call.result.val, call.transaction.value)

C18_Witness ==
    /\ call.op = "encode_currency_transaction"
    /\ call.transaction.value = [source |-> Address1, destination |-> "1", amount |-> 0, fee |-> -1,
                                 parent |-> [hash |-> "", ordinal |-> I64_MAX],
                                 salt |-> "9007199254740991"]
    /\ call.result.ok
    /\ call.result.val = "240" \o Address1 \o "11" \o "10" \o "0"
                             \o ToString(Len(ToString(I64_MAX))) \o ToString(I64_MAX)
                             \o "2-1" \o "141fffffffffffff"

\* C19: salt (de)serialization.  A value is read with its salt given as a
\* JSON string, kept as it is, or as a JSON integer n, kept as the decimal
\* text of n; it is written with the salt as a JSON string; reading what was
\* written gives the value back; the integer form and its string form give
\* equal values and equal hashes.
C19_SaltSerde ==
    (call.op = "deserialize" /\ call.fields.salt.t \in {"str", "num"}) =>
        Let(call.fields.salt, LAMBDA json :
        Let(IF json.t = "str" THEN json.s ELSE ToString(json.n), LAMBDA text :
            /\ call.result.ok
            /\ call.result.val.salt = text
            /\ call.result = deserialize_value([call.fields EXCEPT !.salt = JStr(text)])
            /\ serialize_value(call.result.val).salt = JStr(text)
            /\ deserialize_value(serialize_value(call.result.val)) = call.result
            /\ TransactionHashHex([value |-> call.result.val, proofs |-> <<>>])
                   = TransactionHashHex(
                         [value |-> deserialize_value([call.fields EXCEPT !.salt = JStr(text)]).val,
                          proofs |-> <<>>])))

\* C20: low-S tolerance.  If the signature (r, s) of a proof verifies for a
\* key and a hash, the signature (r, N - s) verifies for them too, and the
\* other way round; an envelope whose proof was replaced by its twin is
\* classified as before.
C20_Twin(signature) ==
    SigTerm(SigPub(signature), SigDigest(signature), ~SigHighS(signature))

C20_LowSTolerance ==
    tx # <<>> =>
        Let(hash_currency_transaction(tx[1]), LAMBDA hash :
            /\ hash.ok =>
                   \A i \in 1..Len(tx[1].proofs) :
                       Let(tx[1].proofs[i], LAMBDA proof :
                           IsSigTerm(proof.signature) =>
                               verify_hash_internal("04" \o proof.id, hash.val, proof.signature)
                                   = verify_hash_internal("04" \o proof.id, hash.val,
                                                          C20_Twin(proof.signature)))
            /\ (call.op = "set_proof" /\ call.edit = "high_s") =>
                   Let(verify_currency_transaction(tx[1]), LAMBDA after :
                   Let(verify_currency_transaction(call.input), LAMBDA before :
                       /\ after.ok
                       /\ after.val.is_valid = before.val.is_valid
                       /\ Len(after.val.valid_proofs) = Len(before.val.valid_proofs))))

C20_Witness ==
    /\ tx # <<>>
    /\ call.op = "set_proof"
    /\ call.edit = "high_s"
    /\ SigHighS(tx[1].proofs[call.index].signature)
    /\ Len(tx[1].proofs) = 2
    /\ verify_currency_transaction(tx[1]).val.is_valid
    /\ verify_currency_transaction(tx[1]).val.valid_proofs = tx[1].proofs

\* C21: canonicalization does not depend on the order of object members.
\* Trees equal up to the order of members at any depth have one canonical
\* text, with the members in key order and no whitespace; arrays keep the
\* order of their items, so two orders of an array give two texts.
C21_Key(k) == <<34>> \o AsBytes(k) \o <<34, 58>>

\* {"B":"s","a":[..],"b":{"X":3,"x":1,"xa":2}}
C21_Expected(items) ==
    AsBytes("{") \o C21_Key("B") \o <<34>> \o AsBytes("s") \o <<34>> \o AsBytes(",")
    \o C21_Key("a") \o AsBytes("[" \o ToString(items[1].n) \o "," \o ToString(items[2].n) \o "],")
    \o C21_Key("b") \o AsBytes("{") \o C21_Key("X") \o AsBytes("3,")
    \o C21_Key("x") \o AsBytes("1,") \o C21_Key("xa") \o AsBytes("2}}")

C21_Items(data) ==
    data.members[CHOOSE i \in 1..Len(data.members) : data.members[i].key = "a"].value.items

C21_OrderIndependence ==
    call.op = "canonicalize" =>
        /\ call.result.ok
        /\ call.result.val = C21_Expected(C21_Items(call.data))
        /\ \A i \in 1..Len(call.result.val) : call.result.val[i] \notin {9, 10, 13, 32}
        /\ C21_Expected(<<JNum(1), JNum(2)>>) # C21_Expected(<<JNum(2), JNum(1)>>)

C21_Witness ==
    /\ call.op = "canonicalize"
    /\ call.data.members[1].key = "b"
    /\ call.data.members[1].value.members[1].key = "xa"
    /\ C21_Items(call.data) = <<JNum(2), JNum(1)>>
    /\ call.result.val = C21_Expected(<<JNum(2), JNum(1)>>)

\* C22 as stated: the program leaves with a status other than 0 whenever a
\* validation or I/O step fails, the status query included.
C22_ExitNonZero ==
    (cli.pc = "exited"
     /\ (cli.failed # "none" \/ \E i \in 1..Len(cli.events) : ~cli.events[i].ok))
        => cli.exit # 0

\* C22 amended: the program leaves with status 1 when the config read or
\* parse, a private-key check, the key derivation, the client creation, the
\* health check, the fetch of the last reference, the creation, the local
\* verification or the submission fails; a failed status query is printed
\* and the program leaves with status 0, as it does when nothing fails.
C22_ExitStatus ==
    cli.pc = "exited" =>
        /\ cli.exit \in {0, 1}
        /\ cli.exit = 1 <=> cli.failed \notin {"none", "status"}
        /\ \A i \in 1..Len(cli.events) :
               (~cli.events[i].ok /\ cli.events[i].op # "get_pending_transaction") =>
                   (cli.exit = 1 /\ i = Len(cli.events))
        /\ cli.failed = "status" =>
               /\ cli.events[Len(cli.events)] = [op |-> "get_pending_transaction", ok |-> FALSE]
               /\ cli.exit = 0

C22_Witness ==
    /\ cli.pc = "exited"
    /\ cli.failed = "submit"
    /\ cli.exit = 1
    /\ Len(cli.events) = 4
    /\ cli.verified

\* C23: the proofs are not part of the hash.  The hash, the encoding and the
\* reference of an envelope are those of its value alone: signing with any
\* key, clearing the proofs or replacing one leaves them as they were, and
\* the hash is a 64-character value.
C23_ProofsNotHashed ==
    tx # <<>> =>
        Let(hash_currency_transaction(tx[1]), LAMBDA hash :
            /\ hash = hash_currency_transaction([tx[1] EXCEPT !.proofs = <<>>])
            /\ encode_currency_transaction(tx[1])
                   = encode_currency_transaction([tx[1] EXCEPT !.proofs = <<>>])
            /\ hash.ok => StrLen(hash.val) = 64
            /\ (call.op = "sign" /\ call.result.ok) =>
                   /\ call.result.val.ret.proofs # call.input.proofs
                   /\ hash_currency_transaction(call.result.val.ret) = hash
                   /\ hash_currency_transaction(call.input) = hash
            /\ call.op \in {"set_proof", "clear_proofs"} =>
                   /\ hash_currency_transaction(call.input) = hash
                   /\ get_transaction_reference(call.input, 1)
                          = get_transaction_reference(tx[1], 1))

C23_Witness ==
    /\ tx # <<>>
    /\ call.op = "sign"
    /\ call.private_key = PrivateKey2
    /\ call.result.ok
    /\ Len(call.input.proofs) = 1
    /\ Len(tx[1].proofs) = 2
    /\ hash_currency_transaction(tx[1]).ok
    /\ hash_currency_transaction(tx[1]) = hash_currency_transaction(call.input)

\* C24: batch ordinals stay in range.  create_currency_transaction_batch with
\* N >= 1 valid transfers and a starting ordinal o with o + (N - 1) inside
\* the signed 64-bit range computes no ordinal outside that range and
\* succeeds, for N = 1 and o = 2^63 - 1 in particular.
C24_OrdinalsInRange ==
    (/\ call.op = "batch"
     /\ Len(call.transfers) >= 1
     /\ \A i \in 1..Len(call.transfers) :
            create_currency_transaction(call.transfers[i], call.private_key, call.last_ref,
                                        call.randoms[i]).ok
     /\ call.last_ref.ordinal + (Len(call.transfers) - 1) \in I64)
        => /\ call.result.ok
           /\ Len(call.result.val) = Len(call.transfers)
           /\ \A i \in 1..Len(call.transfers) :
                  /\ AddI64(call.build, call.last_ref.ordinal, i).ok
                  /\ AddI64(call.build, call.last_ref.ordinal, i).val
                         = call.last_ref.ordinal + i

\* C25: a batch is all-or-nothing.  If the k-th transfer is rejected, the call
\* returns the error of that transfer and no transaction, and the transfers
\* after k play no part; an empty list of transfers gives an empty list.
C25_Rejected(i) ==
    ~create_currency_transaction(call.transfers[i], call.private_key, call.last_ref,
                                 call.randoms[i]).ok

C25_AllOrNothing ==
    call.op = "batch" =>
        /\ Len(call.transfers) = 0 => call.result = Ok(<<>>)
        /\ \A k \in 1..Len(call.transfers) :
               (C25_Rejected(k) /\ \A i \in 1..(k - 1) : ~C25_Rejected(i)) =>
                   /\ call.result = create_currency_transaction(
                                        call.transfers[k], call.private_key, call.last_ref,
                                        call.randoms[k])
                   /\ call.result.err \in {"InvalidAddress", "InvalidAmount", "HexError",
                                           "CryptoError"}
                   /\ call.result.val = NoValue
                   /\ call.result = create_currency_transaction_batch(
                                        call.build, SubSeq(call.transfers, 1, k),
                                        call.private_key, call.last_ref,
                                        SubSeq(call.randoms, 1, k))

\* C26: the length-prefixed encoding is injective on transaction values.
\* The values it is compared on: with fields of any content and of equal or
\* different lengths
C26_Others ==
    UnvalidatedValueSamples
    \cup [source : {Address1},
          destination : {Address2, "1"},
          amount : {0, 1, I64_MAX},
          fee : {0},
          parent : [hash : {ParentHashA, ""}, ordinal : {0, I64_MAX}],
          salt : {"7", "5", "255"}]

C26_Differ(v, w) ==
    \/ v.source # w.source
    \/ v.destination # w.destination
    \/ v.amount # w.amount
    \/ v.fee # w.fee
    \/ v.parent.hash # w.parent.hash
    \/ v.parent.ordinal # w.parent.ordinal
    \/ ParseBigUint(v.salt).val # ParseBigUint(w.salt).val

C26_FieldLengths(v) ==
    <<StrLen(v.source), StrLen(v.destination), StrLen(HexOfI64(v.amount)),
      StrLen(v.parent.hash), StrLen(ToString(v.parent.ordinal)), StrLen(ToString(v.fee)),
      StrLen(BigToHex(ParseBigUint(v.salt).val))>>

C26_Encode(v) == encode_currency_transaction([value |-> v, proofs |-> <<>>])

\* as claimed, for fields of any content: two values that differ never have
\* the same string
C26_Injective ==
    call.op = "encode_currency_transaction" =>
        \A w \in C26_Others :
            C26_Differ(call.transaction.value, w) => C26_Encode(w) # call.result

\* C26, for values whose encoded fields have the same lengths one by one:
\* two such values that differ never have the same string
C26_InjectiveOnEqualLengths ==
    call.op = "encode_currency_transaction" =>
        \A w \in C26_Others :
            (/\ C26_Differ(call.transaction.value, w)
             /\ C26_FieldLengths(call.transaction.value) = C26_FieldLengths(w))
                => C26_Encode(w) # call.result

C26_Witness ==
    /\ call.op = "encode_currency_transaction"
    /\ call.result.ok
    /\ \E w \in C26_Others :
           /\ w.salt = "5"
           /\ ParseBigUint(call.transaction.value.salt).val # ParseBigUint(w.salt).val
           /\ [call.transaction.value EXCEPT !.salt = "5"] = w
           /\ C26_FieldLengths(call.transaction.value) = C26_FieldLengths(w)
           /\ C26_Encode(w) # call.result

C28_IsFullKey(proof) == Len(proof.id) = 130 /\ StartsWith(proof.id, "04") /\ IsHex(proof.id)

C28_InSeq(proof, proofs) == \E i \in 1..Len(proofs) : proofs[i] = proof

C28_PrefixUnconditional ==
    (call.op = "verify" /\ call.result.ok) =>
        /\ \A i \in 1..Len(call.result.val.valid_proofs) :
               /\ Len(call.result.val.valid_proofs[i].id) = 128
               /\ IsHex(call.result.val.valid_proofs[i].id)
        /\ \A i \in 1..Len(call.input.proofs) :
               C28_IsFullKey(call.input.proofs[i]) =>
                   /\ C28_InSeq(call.input.proofs[i], call.result.val.invalid_proofs)
                   /\ ~C28_InSeq(call.input.proofs[i], call.result.val.valid_proofs)
                   /\ ~call.result.val.is_valid

C28_Witness ==
    /\ call.op = "verify"
    /\ call.result.ok
    /\ \E i \in 1..Len(call.input.proofs) :
           /\ C28_IsFullKey(call.input.proofs[i])
           /\ verify_hash_internal(call.input.proofs[i].id,
                                   hash_currency_transaction(call.input).val,
                                   call.input.proofs[i].signature)
           /\ C28_InSeq(call.input.proofs[i], call.result.val.invalid_proofs)

\* C29: get_address gives an address for every input.  For an input that is
\* not valid hex it hashes the empty byte string, so all such inputs have one
\* and the same address, which has the DAG prefix and a parity digit as the
\* address of a key has.
C29_AddressOfNoBytes ==
    Let(base58_encode(HexDecode(Sha256Hex(<<>>))), LAMBDA encoded :
    Let(SubSeq(encoded, Len(encoded) - 35, Len(encoded)), LAMBDA last36 :
        "DAG" \o ToString(DigitSum(last36) % 9) \o last36))

C29_NonHexAddress ==
    call.op = "get_address_of_text" =>
        /\ Len(call.result) = 40
        /\ is_valid_dag_address(call.result)
        /\ ~is_valid_dag_address_panics(call.result)
        /\ ToString(DigitSum(SubSeq(call.result, 5, 40)) % 9) = CharAt(call.result, 4)
        /\ ~IsHex(call.public_key) =>
               /\ call.result = C29_AddressOfNoBytes
               /\ \A other \in PublicKeyTextSamples :
                      ~IsHex(other) => get_address(other) = call.result

C29_Witness ==
    /\ call.op = "get_address_of_text"
    /\ call.public_key = Repeat("z", 128)
    /\ call.result = "DAG5d81kMupNCXHaqbhv3huEbxAFMLnpcX2hniwn"

\* C30: order of the submit flow.  The transaction is posted at most once,
\* and only after the health check succeeded, then the last reference was
\* fetched, then the transaction was created from the configured key with that
\* reference as parent, then local verification found it valid; the status is
\* asked only after a successful post; in --generate-keypair mode no config
\* is read and no request is made.
C30_EventsAt(op) == {i \in 1..Len(cli.events) : cli.events[i].op = op}

C30_SubmitOrder ==
    /\ Cardinality(C30_EventsAt("post_transaction")) <= 1
    /\ \A p \in C30_EventsAt("post_transaction") :
           /\ \E h \in 1..(p - 1), r \in 1..(p - 1) :
                  /\ h < r
                  /\ cli.events[h] = [op |-> "check_health", ok |-> TRUE]
                  /\ cli.events[r] = [op |-> "get_last_reference", ok |-> TRUE]
                  /\ r = p - 1
           /\ \A i \in 1..(p - 1) : cli.events[i].ok
           /\ cli.last_ref # <<>>
           /\ cli.created # <<>>
           /\ cli.created[1].value.parent = cli.last_ref[1]
           /\ cli.created[1].value.source
                  = key_pair_from_private_key(cli.config[1].private_key).val.address
           /\ cli.verified
           /\ verify_currency_transaction(cli.created[1]).val.is_valid
    /\ \A s \in C30_EventsAt("get_pending_transaction") :
           /\ s > 1
           /\ cli.events[s - 1] = [op |-> "post_transaction", ok |-> TRUE]
    /\ cli.generate_keypair => cli.events = <<>> /\ cli.config = <<>>

C30_Witness ==
    /\ cli.pc = "exited"
    /\ ~cli.generate_keypair
    /\ Len(cli.events) = 5
    /\ cli.events[4] = [op |-> "post_transaction", ok |-> TRUE]
    /\ cli.events[5].op = "get_pending_transaction"
    /\ cli.created[1].value.parent.ordinal = I64_MAX

====
